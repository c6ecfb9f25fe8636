------------------------------ MODULE MCHelpers ------------------------------
(* The configuration file (IniConfig) and the loops over a string of base.h *)
(* (StrLoops), which share no state: a behaviour is one of the one or of    *)
(* the other, and the variables of the idle one keep a value its own runs   *)
(* reach.                                                                   *)
(* All files of up to seven characters: the shortest file that defines a    *)
(* name twice, differently, has seven ("1=1", newline, "1=-").  With ints   *)
(* up to 10 and the digit 1, "11" is no int and "-11" is the smallest one.  *)
EXTENDS IniConfig, StrLoops

VARIABLE work  \* what the behaviour is about: "file" or "loop"

LoopIdle ==
  /\ pc = "found" /\ result = -1 /\ rounds = 0
  /\ str = <<>> /\ at = -1
  /\ given = [str |-> <<>>, sub |-> <<>>, to |-> <<>>, pos |-> -1]

MCInit ==
  \/ work = "file" /\ LoopIdle /\ IniInit
  \/ work = "loop" /\ content = <<>> /\ IniInit /\ Init

MCNext ==
  \/ work = "file" /\ IniNext /\ UNCHANGED <<work, vars>>
  \/ work = "loop" /\ Next /\ UNCHANGED <<work, iniVars>>

\* The fairness is that of StrLoops' FairSpec.
MCSpec ==
  /\ MCInit /\ [][MCNext]_<<work, vars, iniVars>>
  /\ WF_vars(str_find \/ replace_all)

\* Every variable of the parser and of the loops holds a value of its type.
HelpersTypeOK == IniTypeOK /\ LoopTypeOK
=============================================================================
