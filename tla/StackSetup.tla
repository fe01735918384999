----------------------------- MODULE StackSetup -----------------------------
(***************************************************************************)
(* The initial stack of the guest (main in src/src/main.cpp): from the top *)
(* down, the auxiliary vector, the two NULLs that end envp and argv, the   *)
(* pointer to argv[0] and argc.  The two copies of the program's path are  *)
(* written into the 64 bytes below the entry that points to them, which sp *)
(* does not skip.                                                          *)
(*                                                                         *)
(* Addresses and lengths count 8-byte words: every pointer and every write *)
(* of main is aligned to them.  The path is len words long, its terminating*)
(* byte included; word k of it is the number 300 + k.                      *)
(***************************************************************************)
EXTENDS Integers, Sequences

CONSTANTS Top,       \* stack_base + stack_size
          PathLens,  \* lengths of argv[1]
          TLSBlocks  \* values of tls_block_addr, 0 for a static program

ASSUME StackConstants ==
    /\ Top \in Nat /\ Top % 2 = 0 /\ Top > 64
    /\ PathLens \subseteq Nat \ {0}
    /\ TLSBlocks \subseteq Nat

VARIABLES stack,  \* contents of the stack, by word
          sp, len, tls, next,
          auxv,   \* auxv_start
          step

stackVars == <<stack, sp, len, tls, next, auxv, step>>

AT_NULL == 0
AT_PHDR == 3
AT_PHNUM == 5
AT_PAGESZ == 6
AT_ENTRY == 9
AT_HWCAP == 16
AT_SECURE == 23
AT_TLS == 23
AT_RANDOM == 25
AT_EXECFN == 31

\* The reserve of a path, and the copy: at most 64 bytes.
RESERVE == 8
CopiedLen == IF len > RESERVE THEN RESERVE ELSE len

\* The values of the entries, abstracted to numbers that no address, type or
\* word of the path equals.
PHNUM == 201
PHDR == 202
ENTRY == 203
HWCAP == 204
PAGESZ == 205

\* Stands for the address right below the pair.
BELOW == -1

\* Mutant: the random bytes are pushed one entry later.
PairsLateRandom == << <<AT_NULL, 0>>, <<AT_RANDOM, BELOW>>, <<AT_PHNUM, PHNUM>>, <<0, 0>>,
                      <<AT_PHDR, PHDR>>, <<AT_ENTRY, ENTRY>>, <<AT_HWCAP, HWCAP>>,
                      <<AT_PAGESZ, PAGESZ>>, <<AT_SECURE, 0>> >>

\* The pairs main pushes first, in order.  The third is not an entry: it is the
\* 16 bytes that AT_RANDOM points to.
Pairs == << <<AT_NULL, 0>>, <<AT_RANDOM, BELOW>>, <<0, 0>>, <<AT_PHNUM, PHNUM>>,
            <<AT_PHDR, PHDR>>, <<AT_ENTRY, ENTRY>>, <<AT_HWCAP, HWCAP>>,
            <<AT_PAGESZ, PAGESZ>>, <<AT_SECURE, 0>> >>

\* The stack with the words ws written from address a on.
Put(s, a, ws) == [b \in DOMAIN s |-> IF b - a + 1 \in DOMAIN ws THEN ws[b - a + 1] ELSE s[b]]

Path == [k \in 1..CopiedLen |-> 300 + k]

\* Fresh anonymous memory reads as zero.
StackInit ==
    /\ stack = [a \in 0..Top - 1 |-> 0]
    /\ sp = Top
    /\ len \in PathLens
    /\ tls \in TLSBlocks
    /\ next = 1
    /\ auxv = 0
    /\ step = "pairs"

\* sp -= 16, and two words at sp.
PushPair ==
    /\ step = "pairs" /\ next <= Len(Pairs)
    /\ sp' = sp - 2
    /\ LET pair == Pairs[next]
       IN stack' = Put(stack, sp', IF pair[2] = BELOW THEN <<pair[1], sp' - 2>> ELSE pair)
    /\ next' = next + 1
    /\ UNCHANGED <<len, tls, auxv, step>>

PushExecfn ==
    /\ step = "pairs" /\ next > Len(Pairs)
    /\ sp' = sp - 2
    /\ stack' = Put(Put(stack, sp' - RESERVE, Path), sp', <<AT_EXECFN, sp' - RESERVE>>)
    /\ step' = "tls"
    /\ UNCHANGED <<len, tls, next, auxv>>

PushTLS ==
    /\ step = "tls"
    /\ IF tls # 0 THEN sp' = sp - 2 /\ stack' = Put(stack, sp', <<AT_TLS, tls>>)
       ELSE UNCHANGED <<sp, stack>>
    /\ auxv' = sp'
    /\ step' = "nulls"
    /\ UNCHANGED <<len, tls, next>>

\* Mutant: argv and envp share one terminator.
PushNullsOnce ==
    /\ step = "nulls"
    /\ sp' = sp - 1
    /\ stack' = Put(stack, sp', <<0>>)
    /\ step' = "argv"
    /\ UNCHANGED <<len, tls, next, auxv>>

PushNulls ==
    /\ step = "nulls"
    /\ sp' = sp - 2
    /\ stack' = Put(stack, sp', <<0, 0>>)
    /\ step' = "argv"
    /\ UNCHANGED <<len, tls, next, auxv>>

\* Mutant: the string is put right below sp, where the pointer goes.
PushArgv0Close ==
    /\ step = "argv"
    /\ sp' = sp - 1
    /\ stack' = Put(Put(stack, sp - len, Path), sp', <<sp - len>>)
    /\ step' = "argc"
    /\ UNCHANGED <<len, tls, next, auxv>>

PushArgv0 ==
    /\ step = "argv"
    /\ sp' = sp - 1
    /\ stack' = Put(Put(stack, sp - RESERVE, Path), sp', <<sp - RESERVE>>)
    /\ step' = "argc"
    /\ UNCHANGED <<len, tls, next, auxv>>

\* The last push, the alignment of sp, and the guest's registers.
PushArgc ==
    /\ step = "argc"
    /\ stack' = Put(stack, sp - 1, <<1>>)
    /\ sp' = (sp - 1) - ((sp - 1) % 2)
    /\ step' = "ready"
    /\ UNCHANGED <<len, tls, next, auxv>>

Ready == step = "ready" /\ UNCHANGED stackVars

StackNext == PushPair \/ PushExecfn \/ PushTLS \/ PushNulls \/ PushArgv0 \/ PushArgc \/ Ready

StackSpec == StackInit /\ [][StackNext]_stackVars

-----------------------------------------------------------------------------
(* What the guest finds                                                    *)

\* The auxiliary vector up to its first AT_NULL, as a guest walks it.
Entries ==
    {k \in 0..(Top - auxv) \div 2 - 1 : \A j \in 0..k : stack[auxv + 2 * j] # AT_NULL}

Type(k) == stack[auxv + 2 * k]

Value(k) == stack[auxv + 2 * k + 1]

ABSENT == -2

\* getauxval: the first entry of a type decides.
Getauxval(type) ==
    IF \E k \in Entries : Type(k) = type
    THEN Value(CHOOSE k \in Entries : Type(k) = type /\ \A j \in Entries : j < k => Type(j) # type)
    ELSE ABSENT

HoldsPath(a) ==
    a \in DOMAIN stack /\ \A k \in 1..CopiedLen : stack[a + k - 1] = Path[k]

\* The layout the comment in main draws: at an aligned sp, argc, argv[0], the
\* two NULLs, and the auxiliary vector that X0 points to.
StackLayout ==
    step = "ready" =>
        /\ sp % 2 = 0
        /\ stack[sp] = 1
        /\ stack[sp + 1] \in DOMAIN stack
        /\ stack[sp + 2] = 0 /\ stack[sp + 3] = 0
        /\ auxv = sp + 4
        /\ Getauxval(AT_PHDR) = PHDR /\ Getauxval(AT_PHNUM) = PHNUM
        /\ Getauxval(AT_ENTRY) = ENTRY

\* argv[0] points to the path, whole, when the guest starts, exactly if the path
\* has at most 48 bytes: of the 64 written below sp the last 16 are taken by
\* the pointer and argc, whatever else is on the stack.
ArgvSurvives == step = "ready" => (HoldsPath(stack[sp + 1]) <=> len <= RESERVE - 2)

\* AT_EXECFN points to the path, whole, exactly if the path has at most 16
\* bytes.  In a static program argv[0]'s copy begins 16 bytes below the copy for
\* AT_EXECFN and covers the rest of it; in a dynamic one argc is the first word
\* to fall on it.
ExecfnSurvives == step = "ready" => (HoldsPath(Getauxval(AT_EXECFN)) <=> len <= 2)

\* The guest's walk finds every entry main pushes except AT_RANDOM, whose data
\* lies inside the vector and ends it.
EntriesFound ==
    step = "ready" =>
        {Type(k) : k \in Entries} =
            {AT_PHDR, AT_PHNUM, AT_PAGESZ, AT_ENTRY, AT_HWCAP, AT_SECURE, AT_EXECFN}
=============================================================================
