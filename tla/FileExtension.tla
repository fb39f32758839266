---------------------------- MODULE FileExtension ----------------------------
(***************************************************************************)
(* get_file_name_extension of src/shader.c, by which compile() tells       *)
(* vertex shaders ("vs") from fragment shaders: one character at a time.   *)
(* A path is a sequence of dots, slashes and letters, and End its NUL: the *)
(* absolute path of a file, or empty where get_path has found no file.     *)
(***************************************************************************)
EXTENDS Naturals, Sequences, SequencesExt

CONSTANTS Dot, Slash, Letter, End,
          MaxPath   \* bound: how much there is between the first slash of a path
                    \* and its last letter

ASSUME PathAssumption ==
    /\ MaxPath \in Nat
    /\ End \notin {Dot, Slash, Letter} /\ Dot \notin {Slash, Letter}

VARIABLES path, ind, pos, end, stage

extVars == <<path, ind, pos, end, stage>>

\* path[i] of the code is path[i + 1] here.
At(i) == path[i + 1]

ExtInit ==
    /\ \/ path = <<End>>
       \/ \E p \in BoundedSeq({Dot, Slash, Letter}, MaxPath) :
              path = <<Slash>> \o p \o <<Letter, End>>
    /\ ind = path[1] /\ pos = 0 /\ end = 0
    /\ stage = "looking"

\* Mutant: the first loop ends before the NUL.
LookByLength ==
    /\ stage = "looking" /\ ind # End
    /\ ind' = At(pos)
    /\ pos' = IF ind' = Dot THEN pos ELSE pos + 1
    /\ stage' = IF ind' = Dot \/ pos' = Len(path) - 1 THEN "found" ELSE stage
    /\ UNCHANGED <<path, end>>

\* The first loop: to the first dot, or past the end.
Look ==
    /\ stage = "looking" /\ ind # End
    /\ ind' = At(pos)
    /\ pos' = IF ind' = Dot THEN pos ELSE pos + 1
    /\ stage' = IF ind' = Dot THEN "found" ELSE stage
    /\ UNCHANGED <<path, end>>

\* Mutant: the dot is part of the extension.
StepOverNothing ==
    /\ stage = "found" \/ (stage = "looking" /\ ind = End)
    /\ end' = pos
    /\ stage' = "measuring"
    /\ UNCHANGED <<path, ind, pos>>

StepOver ==
    /\ stage = "found" \/ (stage = "looking" /\ ind = End)
    /\ pos' = pos + 1 /\ end' = pos'
    /\ stage' = "measuring"
    /\ UNCHANGED <<path, ind>>

\* The second loop: to the end of the path.
Measure ==
    /\ stage = "measuring"
    /\ IF ind = End THEN stage' = "done" /\ UNCHANGED <<ind, end>>
       ELSE /\ ind' = At(end)
            /\ IF ind' = End THEN stage' = "done" /\ UNCHANGED end
               ELSE end' = end + 1 /\ UNCHANGED stage
    /\ UNCHANGED <<path, pos>>

ExtNext == Look \/ StepOver \/ Measure

ExtSpec == ExtInit /\ [][ExtNext]_extVars

-----------------------------------------------------------------------------
Result == [i \in 1..(end - pos) |-> At(pos + i - 1)]

Indices(char) == {i \in DOMAIN path : path[i] = char}

\* What follows the last dot of the last component, if there is one.
FileNameExtension ==
    LET name == {i \in DOMAIN path : \A j \in Indices(Slash) : i > j}
        dots == Indices(Dot) \cap name
    IN IF dots = {} THEN <<>>
       ELSE SubSeq(path, CHOOSE d \in {i + 1 : i \in dots} : \A e \in dots : e < d,
                   Len(path) - 1)

\* The loops stay within the path, also without any dot, where the first one
\* ends behind the NUL (shader.c 22-40).
ScansWithinPath ==
    /\ stage = "looking" /\ ind # End => pos < Len(path)
    /\ stage = "measuring" /\ ind # End => end < Len(path)
    /\ stage = "done" => end >= pos

\* A path with one dot, in its last component, has the extension that is found.
OneDotFound ==
    \A d \in DOMAIN path :
        stage = "done" /\ Indices(Dot) = {d} /\ (\A j \in Indices(Slash) : j < d)
            => Result = FileNameExtension
=============================================================================
