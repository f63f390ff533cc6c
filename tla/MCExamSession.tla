----------------------------- MODULE MCExamSession -----------------------------
(***************************************************************************)
(* Instances of ExamSession for TLC: one question in a section, with or    *)
(* without a coding result, and the symmetry of its flushers.              *)
(***************************************************************************)
EXTENDS ExamSession, TLC

CONSTANT s1

InOneSection == [q \in Questions |-> s1]
OutsideSections == [q \in Questions |-> NoSection]

FlusherSymmetry == Permutations(Flushers)

================================================================================
