---------------------------- MODULE SyscallTable ----------------------------
(***************************************************************************)
(* The numbers of system calls: the table that translates those of AArch64 *)
(* Linux into those of x86_64 Linux (src/src/syscall/syscall_table.hpp),   *)
(* and the numbers that the two kernels really give to the same call.      *)
(***************************************************************************)
EXTENDS Integers, Sequences, SequencesExt

\* Pairs <<arm_nr, x86_nr>>.
syscall_table == <<
    <<63, 0>>, <<64, 1>>, <<65, 19>>, <<66, 20>>, <<67, 17>>, <<68, 18>>, <<69, 295>>,
    <<70, 296>>, <<62, 8>>, <<71, 40>>, <<75, 278>>, <<76, 275>>, <<77, 276>>, <<56, 3>>,
    <<57, 3>>, <<257, 257>>, <<23, 32>>, <<24, 292>>, <<59, 293>>, <<48, 72>>, <<29, 16>>,
    <<32, 73>>, <<5, 5>>, <<79, 262>>, <<46, 77>>, <<47, 285>>, <<61, 78>>, <<81, 162>>,
    <<82, 74>>, <<83, 75>>, <<84, 277>>, <<88, 280>>, <<33, 259>>, <<34, 258>>, <<35, 263>>,
    <<36, 266>>, <<37, 265>>, <<38, 264>>, <<266, 267>>, <<78, 267>>, <<49, 80>>,
    <<50, 81>>, <<222, 9>>, <<226, 10>>, <<215, 11>>, <<214, 12>>, <<216, 25>>, <<218, 28>>,
    <<219, 26>>, <<221, 27>>, <<220, 56>>, <<435, 435>>, <<93, 60>>, <<94, 231>>,
    <<95, 247>>, <<96, 218>>, <<97, 272>>, <<98, 202>>, <<99, 273>>, <<100, 300>>,
    <<178, 186>>, <<127, 62>>, <<128, 200>>, <<129, 200>>, <<166, 156>>, <<132, 131>>,
    <<134, 13>>, <<135, 14>>, <<130, 128>>, <<131, 129>>, <<133, 130>>, <<138, 132>>,
    <<139, 15>>, <<101, 35>>, <<113, 228>>, <<114, 229>>, <<115, 230>>, <<116, 232>>,
    <<85, 283>>, <<86, 286>>, <<87, 287>>, <<20, 294>>, <<21, 233>>, <<22, 22>>,
    <<72, 270>>, <<73, 23>>, <<26, 294>>, <<27, 254>>, <<28, 255>>, <<19, 290>>,
    <<74, 289>>, <<172, 39>>, <<173, 110>>, <<174, 102>>, <<175, 105>>, <<176, 104>>,
    <<177, 107>>, <<169, 115>>, <<170, 116>>, <<198, 41>>, <<200, 49>>, <<201, 50>>,
    <<202, 43>>, <<203, 42>>, <<192, 46>>, <<191, 47>>, <<206, 44>>, <<207, 45>>,
    <<209, 54>>, <<210, 55>>, <<208, 51>>, <<217, 248>>, <<221, 27>>, <<223, 29>>,
    <<224, 30>>, <<225, 31>>, <<227, 32>>, <<160, 158>>, <<167, 157>>, <<17, 79>>,
    <<278, 318>>, <<283, 324>>, <<280, 321>>, <<92, 135>>, <<90, 125>>, <<91, 126>>>>

\* translate_syscall_nr: the first entry counts; -1 is "unknown".
TranslateNr(arm_nr) ==
    LET i == SelectInSeq(syscall_table, LAMBDA entry : entry[1] = arm_nr)
    IN  IF i = 0 THEN -1 ELSE syscall_table[i][2]

\* The number that x86_64 Linux gives to the call that AArch64 Linux numbers
\* arm_nr, from the two kernels' unistd.h, for the numbers in the table.
SameCall == {
    <<5, 188>>, <<17, 79>>, <<19, 290>>, <<20, 291>>, <<21, 233>>, <<22, 281>>, <<23, 32>>,
    <<24, 292>>, <<26, 294>>, <<27, 254>>, <<28, 255>>, <<29, 16>>, <<32, 73>>, <<33, 259>>,
    <<34, 258>>, <<35, 263>>, <<36, 266>>, <<37, 265>>, <<38, 264>>, <<46, 77>>,
    <<47, 285>>, <<48, 269>>, <<49, 80>>, <<50, 81>>, <<56, 257>>, <<57, 3>>, <<59, 293>>,
    <<61, 217>>, <<62, 8>>, <<63, 0>>, <<64, 1>>, <<65, 19>>, <<66, 20>>, <<67, 17>>,
    <<68, 18>>, <<69, 295>>, <<70, 296>>, <<71, 40>>, <<72, 270>>, <<73, 271>>, <<74, 289>>,
    <<75, 278>>, <<76, 275>>, <<77, 276>>, <<78, 267>>, <<79, 262>>, <<81, 162>>,
    <<82, 74>>, <<83, 75>>, <<84, 277>>, <<85, 283>>, <<86, 286>>, <<87, 287>>, <<88, 280>>,
    <<90, 125>>, <<91, 126>>, <<92, 135>>, <<93, 60>>, <<94, 231>>, <<95, 247>>,
    <<96, 218>>, <<97, 272>>, <<98, 202>>, <<99, 273>>, <<100, 274>>, <<101, 35>>,
    <<113, 228>>, <<114, 229>>, <<115, 230>>, <<116, 103>>, <<127, 148>>, <<128, 219>>,
    <<129, 62>>, <<130, 200>>, <<131, 234>>, <<132, 131>>, <<133, 130>>, <<134, 13>>,
    <<135, 14>>, <<138, 129>>, <<139, 15>>, <<160, 63>>, <<166, 95>>, <<167, 157>>,
    <<169, 96>>, <<170, 164>>, <<172, 39>>, <<173, 110>>, <<174, 102>>, <<175, 107>>,
    <<176, 104>>, <<177, 108>>, <<178, 186>>, <<191, 66>>, <<192, 220>>, <<198, 41>>,
    <<200, 49>>, <<201, 50>>, <<202, 43>>, <<203, 42>>, <<206, 44>>, <<207, 45>>,
    <<208, 54>>, <<209, 55>>, <<210, 48>>, <<214, 12>>, <<215, 11>>, <<216, 25>>,
    <<217, 248>>, <<218, 249>>, <<219, 250>>, <<220, 56>>, <<221, 59>>, <<222, 9>>,
    <<223, 221>>, <<224, 167>>, <<225, 168>>, <<226, 10>>, <<227, 26>>, <<266, 305>>,
    <<278, 318>>, <<280, 321>>, <<283, 324>>, <<435, 435>>}
=============================================================================
