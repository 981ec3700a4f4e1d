-------------------------- MODULE VirusTotalProofs --------------------------
(***************************************************************************)
(* What the script and its store promise for every list of files, every     *)
(* number of files to skip and every number of failures.                    *)
(***************************************************************************)
EXTENDS VirusTotal, FiniteSetTheorems, SequenceTheorems, TLAPS

Grades == {"none", "poor", "good"}
Asking == {"get", "count", "scan", "wait to get", "wait to scan", "open"}
Places == {"idle", "foreach", "write", "ask"} \cup Asking

StoreTypes ==
    /\ info \in [Files -> {"none", "open", "good"}]
    /\ report \in [Present -> Grades]
    /\ scans \subseteq Present
    /\ faults \in Nat

ScriptTypes ==
    /\ pc \in Places
    /\ params \in [skip : Nat, interactive : BOOLEAN]
    /\ pos \in 1 .. Len(Lst) + 1
    /\ result \in Grades
    /\ processed \in Nat
    /\ resubmitted \in Nat
    /\ submitted \subseteq Files

TypeOK == StoreTypes /\ ScriptTypes

(* Nothing is known before a run. *)
IdleInv ==
    pc = "idle" => pos = 1 /\ processed = 0 /\ resubmitted = 0 /\ submitted = {}

(* The file the script is at: it is listed and exists; it has no .info until *)
(* the one of this run is opened; only a good report is written.            *)
FlekInv ==
    /\ pc \in Asking \cup {"write", "ask"} => pos <= Len(Lst)
    /\ pc \in Asking => flek \in Present /\ info[flek] = "none"
    /\ pc = "write" => info[flek] = "open"
    /\ pc \in {"open", "write"} => result = "good"
    /\ pc = "ask" => info[flek] # "none" \/ flek \in submitted

(* The files the run is done with, apart from the one it asks about. *)
Passed == {Lst[i] : i \in 1 .. pos - 1}

(* Only files that are done with were submitted, which is why a submission   *)
(* is always one of a new file.                                             *)
SubmittedInv ==
    /\ submitted \subseteq Passed \cup IF pc = "ask" THEN {flek} ELSE {}
    /\ CountsFiles

(* The files the run has left behind without a report and without asking for *)
(* one are those it skipped; they are counted in `processed`.               *)
Skipped == {f \in Passed : f \in Unreported \ submitted}

SkippedInv ==
    /\ Cardinality(Skipped) <= params.skip + 1
    /\ processed <= params.skip => Cardinality(Skipped) <= processed

IInv ==
    /\ TypeOK
    /\ IdleInv
    /\ FlekInv
    /\ SubmittedInv
    /\ OpenOnlyAfterKill
    /\ SkippedInv
-----------------------------------------------------------------------------
(* The list of files. *)

LEMMA ListFacts ==
    /\ Len(Lst) \in Nat /\ DOMAIN Lst = 1 .. Len(Lst)
    /\ \A i \in 1 .. Len(Lst) : Lst[i] \in Files
    /\ \A f \in Files : \E i \in 1 .. Len(Lst) : f = Lst[i]
    /\ \A i, j \in 1 .. Len(Lst) : Lst[i] = Lst[j] => i = j
    /\ Present \subseteq Files
<1>1. Lst \in Seq(Files)
    BY ListAssumption DEF Files
<1>2. Len(Lst) \in Nat /\ DOMAIN Lst = 1 .. Len(Lst)
    BY <1>1, LenProperties
<1>3. Files = {Lst[i] : i \in 1 .. Len(Lst)}
    BY <1>2 DEF Files, ToSet
<1>4. \A i, j \in 1 .. Len(Lst) : Lst[i] = Lst[j] => i = j
    BY <1>2, ListAssumption DEF IsInjective
<1>5. Present \subseteq Files
    BY ListAssumption DEF Files
<1>6. QED  BY <1>2, <1>3, <1>4, <1>5

LEMMA FilesAreFinite == IsFiniteSet(Files)
<1>1. Len(Lst) \in Nat /\ DOMAIN Lst = 1 .. Len(Lst) /\ Files = {Lst[i] : i \in 1 .. Len(Lst)}
    BY ListFacts DEF Files, ToSet
<1>2. IsFiniteSet(1 .. Len(Lst))
    BY <1>1, FS_Interval
<1> DEFINE name == [i \in 1 .. Len(Lst) |-> Lst[i]]
<1>3. name \in Surjection(1 .. Len(Lst), Files)
    BY <1>1 DEF Surjection
<1>4. QED  BY <1>2, <1>3, FS_Surjection

(* The subsets of the files that the invariants count. *)
LEMMA FileSets ==
    ASSUME NEW S \in SUBSET Files
    PROVE  /\ IsFiniteSet(S) /\ Cardinality(S) \in Nat
           /\ \A f \in Files : Cardinality(S \cup {f}) =
                                  IF f \in S THEN Cardinality(S) ELSE Cardinality(S) + 1
           /\ \A f \in Files : Cardinality(S \ {f}) =
                                  IF f \in S THEN Cardinality(S) - 1 ELSE Cardinality(S)
           /\ \A R \in SUBSET S : Cardinality(R) <= Cardinality(S) /\ Cardinality(R) \in Nat
<1>1. IsFiniteSet(S)
    BY FilesAreFinite, FS_Subset
<1>2. Cardinality(S) \in Nat
    BY <1>1, FS_CardinalityType
<1>3. \A f \in Files : Cardinality(S \cup {f}) =
                          IF f \in S THEN Cardinality(S) ELSE Cardinality(S) + 1
    BY <1>1, FS_AddElement
<1>4. \A f \in Files : Cardinality(S \ {f}) =
                          IF f \in S THEN Cardinality(S) - 1 ELSE Cardinality(S)
    BY <1>1, FS_RemoveElement
<1>5. \A R \in SUBSET S : Cardinality(R) <= Cardinality(S) /\ Cardinality(R) \in Nat
    BY <1>1, FS_Subset, FS_CardinalityType
<1>6. QED  BY <1>1, <1>2, <1>3, <1>4, <1>5

(* The file the script is at is none of those it is done with, and joins      *)
(* them when it goes on.                                                    *)
LEMMA AtFlek ==
    ASSUME TypeOK, pos <= Len(Lst)
    PROVE  /\ flek \in Files
           /\ flek \notin Passed
           /\ Passed \subseteq Files
           /\ pos' = pos + 1 => pos' \in 1 .. Len(Lst) + 1 /\ Passed' = Passed \cup {flek}
<1>1. pos \in 1 .. Len(Lst) /\ pos \in Nat /\ Len(Lst) \in Nat
    BY ListFacts DEF TypeOK, StoreTypes, ScriptTypes
<1>2. flek \in Files /\ flek \notin Passed
    <2>1. \A i \in 1 .. pos - 1 : i \in 1 .. Len(Lst) /\ i # pos
        BY <1>1
    <2>2. QED  BY <1>1, <2>1, ListFacts DEF flek, Passed
<1>3. Passed \subseteq Files
    <2>1. \A i \in 1 .. pos - 1 : i \in 1 .. Len(Lst)
        BY <1>1
    <2>2. QED  BY <2>1, ListFacts DEF Passed
<1>4. ASSUME pos' = pos + 1
      PROVE  pos' \in 1 .. Len(Lst) + 1 /\ Passed' = Passed \cup {flek}
    <2>1. \A i : i \in 1 .. pos' - 1 <=> i \in 1 .. pos - 1 \/ i = pos
        BY <1>1, <1>4
    <2>2. Passed' = {Lst[i] : i \in 1 .. pos' - 1}
        BY DEF Passed
    <2>3. QED  BY <1>1, <1>4, <2>1, <2>2 DEF Passed, flek
<1>5. QED  BY <1>2, <1>3, <1>4

LEMMA PassedFiles == TypeOK => Passed \subseteq Files
<1> SUFFICES ASSUME TypeOK, NEW i \in 1 .. pos - 1 PROVE Lst[i] \in Files
    BY DEF Passed
<1>1. i \in 1 .. Len(Lst)
    BY ListFacts DEF TypeOK, StoreTypes, ScriptTypes
<1>2. QED  BY <1>1, ListFacts
-----------------------------------------------------------------------------
LEMMA Initially == Init => IInv
<1> SUFFICES ASSUME Init PROVE IInv
    OBVIOUS
<1>1. TypeOK
    BY ListFacts DEF Init, TypeOK, StoreTypes, ScriptTypes, Grades, Places
<1>2. IdleInv /\ FlekInv
    BY DEF Init, IdleInv, FlekInv, Asking
<1>3. Passed = {} /\ Skipped = {}
    BY DEF Init, Passed, Skipped
<1>4. SubmittedInv /\ SkippedInv
    BY <1>3, FS_EmptySet DEF Init, SubmittedInv, CountsFiles, SkippedInv
<1>5. OpenOnlyAfterKill
    <2>1. {f \in Files : info[f] = "open"} = {}
        BY DEF Init
    <2>2. QED  BY <2>1, FS_EmptySet DEF Init, OpenOnlyAfterKill
<1>6. QED  BY <1>1, <1>2, <1>4, <1>5 DEF IInv

(* The place in the list stays in bounds, and everything has its type.       *)
LEMMA StoreTypesStep == ASSUME IInv, [Next]_vars PROVE StoreTypes'
<1> USE DEF IInv, TypeOK
<1>1. pc \in Asking => flek \in Files /\ flek \in Present
    BY AtFlek DEF FlekInv
<1>0. pc = "write" => flek \in Files
    BY AtFlek DEF FlekInv
<1>2. CASE LoseAnswer
    <2>1. scans' \subseteq Present
        BY <1>1, <1>2 DEF LoseAnswer, StoreTypes, Asking
    <2>2. QED  BY <1>2, <2>1 DEF LoseAnswer, StoreTypes
<1>3. CASE Kill
    BY <1>3 DEF Kill, StoreTypes, service
<1>4. CASE Submit \/ Resubmit
    <2>1. scans' \subseteq Present
        BY <1>1, <1>4 DEF Submit, Resubmit, Accepted, StoreTypes, Asking
    <2>2. QED  BY <1>4, <2>1 DEF Submit, Resubmit, Accepted, StoreTypes
<1>5. CASE Open \/ Write
    <2>1. info' \in [Files -> {"none", "open", "good"}]
        <3>1. CASE Open
            BY <3>1 DEF Open, StoreTypes
        <3>2. CASE Write
            BY <3>2 DEF Write, StoreTypes, FlekInv
        <3>3. QED  BY <3>1, <3>2, <1>5
    <2>2. QED  BY <1>5, <2>1 DEF Open, Write, StoreTypes, service
<1>6. ASSUME NEW f \in Present, NEW grade \in {"poor", "good"}, Scanned(f, grade)
      PROVE  StoreTypes'
    BY <1>6 DEF Scanned, StoreTypes, Grades
<1>7. CASE UNCHANGED <<info, service, faults>>
    BY <1>7 DEF StoreTypes, service
<1>8. QED
    BY <1>2, <1>3, <1>4, <1>5, <1>6, <1>7
       DEF Next, Script, Start, Finish, PassBy, SkipFile, TakeFile, ReportFound, Count, Refuse,
           Wake, Answer, vars

LEMMA ScriptTypesStep == ASSUME IInv, [Next]_vars PROVE ScriptTypes'
<1> USE DEF IInv, TypeOK
<1>1. ASSUME Continue, pos <= Len(Lst), processed' \in Nat, resubmitted' \in Nat,
             submitted' \subseteq Files
      PROVE  ScriptTypes'
    BY <1>1, AtFlek DEF Continue, ScriptTypes, Places, Grades
<1>2. ASSUME Exit PROVE ScriptTypes'
    BY <1>2, ListFacts DEF Exit, ScriptTypes, Places, Grades
<1>3. ASSUME params' \in [skip : Nat, interactive : BOOLEAN], pos' = pos,
             pc' \in Places, result' \in Grades,
             processed' \in Nat, resubmitted' \in Nat, submitted' \subseteq Files
      PROVE  ScriptTypes'
    BY <1>3 DEF ScriptTypes
<1>4. processed \in Nat /\ processed + 1 \in Nat /\ resubmitted \in Nat
      /\ resubmitted + 1 \in Nat /\ submitted \subseteq Files
      /\ params \in [skip : Nat, interactive : BOOLEAN] /\ result \in Grades
    BY DEF ScriptTypes
<1>5. pc \in Asking \cup {"write", "ask"} => pos <= Len(Lst) /\ flek \in Files
    BY AtFlek DEF FlekInv
<1>6. CASE Start
    BY <1>6, <1>3, <1>4, ListAssumption DEF Start, Places, counts
<1>7. CASE Finish \/ LoseAnswer \/ Kill
    BY <1>7, <1>2 DEF Finish, LoseAnswer, Kill
<1>8. CASE PassBy \/ SkipFile
    BY <1>8, <1>1, <1>4 DEF PassBy, SkipFile, counts
<1>9. CASE TakeFile \/ ReportFound \/ Count \/ Refuse \/ Wake \/ Open
    <2>1. pc \in Asking => report[flek] \in Grades
        BY DEF FlekInv, StoreTypes
    <2>2. /\ params' = params /\ pos' = pos /\ UNCHANGED counts
          /\ pc' \in Places /\ result' \in Grades
        BY <1>9, <2>1, <1>4
           DEF TakeFile, ReportFound, Count, Refuse, Wake, Open, Places, Asking
    <2>3. QED  BY <2>2, <1>3, <1>4 DEF counts
<1>10. CASE Submit \/ Resubmit \/ Write
    <2>1. pc \in Asking \cup {"write"}
        BY <1>10 DEF Submit, Resubmit, Write, Asking
    <2>2. processed' \in Nat /\ resubmitted' \in Nat /\ submitted' \subseteq Files
        BY <1>10, <2>1, <1>4, <1>5 DEF Submit, Resubmit, Write, Accepted, Done
    <2>3. Continue \/ (pc' = "ask" /\ UNCHANGED <<params, pos, result>>)
        BY <1>10 DEF Submit, Resubmit, Write, Done
    <2>4. QED  BY <2>1, <2>2, <2>3, <1>1, <1>3, <1>4, <1>5 DEF Places
<1>11. CASE Answer
    BY <1>11, <1>1, <1>2, <1>4, <1>5 DEF Answer, counts
<1>12. CASE UNCHANGED <<pc, params, pos, result, counts>>
    BY <1>12 DEF ScriptTypes, counts
<1>13. QED
    BY <1>6, <1>7, <1>8, <1>9, <1>10, <1>11, <1>12 DEF Next, Script, Scanned, vars

LEMMA FlekStep == ASSUME IInv, [Next]_vars PROVE IdleInv' /\ FlekInv'
<1> USE DEF IInv, Asking, TypeOK
<1>1. ASSUME pc' = "foreach" PROVE IdleInv' /\ FlekInv'
    BY <1>1 DEF IdleInv, FlekInv
<1>2. ASSUME Exit PROVE IdleInv' /\ FlekInv'
    BY <1>2 DEF Exit, IdleInv, FlekInv
<1>3. ASSUME pos' = pos PROVE flek' = flek
    BY <1>3 DEF flek
<1>4. CASE Start \/ PassBy \/ SkipFile \/ Submit
    BY <1>4, <1>1 DEF Start, PassBy, SkipFile, Submit, Continue
<1>5. CASE Finish \/ LoseAnswer \/ Kill
    BY <1>5, <1>2 DEF Finish, LoseAnswer, Kill
<1>6. CASE TakeFile
    BY <1>6, <1>3 DEF TakeFile, IsPassedBy, IdleInv, FlekInv, counts
<1>7. CASE ReportFound \/ Count \/ Refuse \/ Wake
    BY <1>7, <1>3 DEF ReportFound, Count, Refuse, Wake, IdleInv, FlekInv, counts
<1>8. CASE Resubmit
    <2>1. CASE params.interactive
        <3>1. pc' = "ask" /\ pos' = pos /\ submitted' = submitted \cup {flek}
            BY <1>8, <2>1 DEF Resubmit, Done, Accepted
        <3>2. pos <= Len(Lst) /\ flek \in submitted'
            BY <1>8, <3>1 DEF Resubmit, FlekInv
        <3>3. QED  BY <3>1, <3>2, <1>3 DEF IdleInv, FlekInv
    <2>2. CASE ~params.interactive
        BY <1>8, <2>2, <1>1 DEF Resubmit, Done, Continue
    <2>3. QED  BY <2>1, <2>2
<1>9. CASE Open
    <2>1. flek \in Files
        BY <1>9, AtFlek DEF Open, FlekInv
    <2>2. info'[flek] = "open" /\ pos' = pos /\ pc' = "write" /\ result' = result
        BY <1>9, <2>1 DEF Open, StoreTypes
    <2>3. QED  BY <1>9, <2>2, <1>3 DEF Open, IdleInv, FlekInv
<1>10. CASE Write
    <2>1. flek \in Files
        BY <1>10, AtFlek DEF Write, FlekInv
    <2>2. info'[flek] = "good"
        BY <1>10, <2>1 DEF Write, StoreTypes, FlekInv
    <2>3. CASE params.interactive
        BY <1>10, <2>2, <2>3, <1>3 DEF Write, Done, IdleInv, FlekInv
    <2>4. CASE ~params.interactive
        BY <1>10, <2>4, <1>1 DEF Write, Done, Continue
    <2>5. QED  BY <2>3, <2>4
<1>11. CASE Answer
    BY <1>11, <1>1, <1>2 DEF Answer, Continue
<1>12. CASE UNCHANGED <<info, pc, pos, result, counts>>
    BY <1>12, <1>3 DEF IdleInv, FlekInv, counts
<1>13. QED
    BY <1>4, <1>5, <1>6, <1>7, <1>8, <1>9, <1>10, <1>11, <1>12
       DEF Next, Script, Scanned, vars
(* A submitted file is new to the run, so counting submissions counts files. *)
LEMMA SubmittedStep == ASSUME IInv, [Next]_vars PROVE SubmittedInv'
<1> USE DEF IInv, SubmittedInv
<1>1. resubmitted \in Nat /\ submitted \in SUBSET Files
    BY DEF TypeOK, ScriptTypes
<1>2. pc \in Asking \cup {"write", "ask"} => pos <= Len(Lst)
    BY DEF FlekInv
<1>3. ASSUME Exit PROVE SubmittedInv'
    BY <1>3, FS_EmptySet DEF Exit, CountsFiles
<1>4. ASSUME Continue, pos <= Len(Lst),
             submitted' \subseteq submitted \cup {flek}, CountsFiles'
      PROVE  SubmittedInv'
    <2>1. Passed' = Passed \cup {flek} /\ pc' # "ask"
        BY <1>4, AtFlek DEF Continue
    <2>2. submitted \subseteq Passed \cup {flek}
        OBVIOUS
    <2>3. QED  BY <1>4, <2>1, <2>2
<1>5. ASSUME UNCHANGED <<resubmitted, submitted>> PROVE CountsFiles'
    BY <1>5 DEF CountsFiles
<1>6. ASSUME Accepted, pc \in Asking PROVE CountsFiles' /\ submitted' = submitted \cup {flek}
    <2>1. flek \in Files /\ flek \notin Passed /\ pc # "ask"
        BY <1>2, <1>6, AtFlek DEF Asking
    <2>2. flek \notin submitted
        BY <2>1
    <2>3. Cardinality(submitted \cup {flek}) = Cardinality(submitted) + 1
        BY <1>1, <2>1, <2>2, FileSets
    <2>4. QED  BY <1>6, <2>3 DEF Accepted, CountsFiles
<1>7. ASSUME UNCHANGED <<pos, resubmitted, submitted>>, pc' = "ask" <=> pc = "ask"
      PROVE  SubmittedInv'
    <2>1. Passed' = Passed /\ flek' = flek
        BY <1>7 DEF Passed, flek
    <2>2. QED  BY <1>7, <1>5, <2>1
<1>8. CASE Finish \/ LoseAnswer \/ Kill
    BY <1>8, <1>3 DEF Finish, LoseAnswer, Kill
<1>9. CASE PassBy \/ SkipFile
    BY <1>9, <1>4, <1>5 DEF PassBy, SkipFile, counts
<1>10. CASE Start \/ TakeFile \/ ReportFound \/ Count \/ Refuse \/ Wake \/ Open
    BY <1>10, <1>7 DEF Start, TakeFile, ReportFound, Count, Refuse, Wake, Open, counts
<1>11. CASE Submit
    BY <1>11, <1>2, <1>4, <1>6 DEF Submit, Asking
<1>12. ASSUME pos' = pos, pc' = "ask", pc # "ask",
              submitted' \subseteq submitted \cup {flek}, CountsFiles'
       PROVE  SubmittedInv'
    <2>1. Passed' = Passed /\ flek' = flek
        BY <1>12 DEF Passed, flek
    <2>2. QED  BY <1>12, <2>1
<1>13. CASE Resubmit
    <2>1. CountsFiles' /\ submitted' = submitted \cup {flek} /\ pos <= Len(Lst)
        BY <1>13, <1>2, <1>6 DEF Resubmit, Asking
    <2>2. Continue \/ (pos' = pos /\ pc' = "ask")
        BY <1>13 DEF Resubmit, Done
    <2>3. QED  BY <1>13, <1>4, <1>12, <2>1, <2>2 DEF Resubmit
<1>14. CASE Write
    <2>1. CountsFiles' /\ submitted' = submitted /\ pos <= Len(Lst)
        BY <1>14, <1>2, <1>5 DEF Write
    <2>2. Continue \/ (pos' = pos /\ pc' = "ask")
        BY <1>14 DEF Write, Done
    <2>3. QED  BY <1>14, <1>4, <1>12, <2>1, <2>2 DEF Write
<1>15. CASE Answer
    BY <1>15, <1>2, <1>3, <1>4, <1>5 DEF Answer, counts
<1>16. CASE UNCHANGED <<pc, pos, counts>>
    BY <1>16, <1>7 DEF counts
<1>17. QED
    BY <1>8, <1>9, <1>10, <1>11, <1>13, <1>14, <1>15, <1>16 DEF Next, Script, Scanned, vars

(* Only a kill between opening and writing leaves an unfinished .info.       *)
OpenFiles == {f \in Files : info[f] = "open"}

LEMMA OpenStep == ASSUME IInv, [Next]_vars PROVE OpenOnlyAfterKill'
<1> USE DEF IInv, TypeOK
<1>1. OpenFiles \in SUBSET Files /\ faults \in Nat
      /\ Cardinality(OpenFiles) <= faults + IF pc = "write" THEN 1 ELSE 0
    BY DEF OpenFiles, OpenOnlyAfterKill, StoreTypes
<1>2. Cardinality(OpenFiles) \in Nat
    BY <1>1, FileSets
<1>3. SUFFICES Cardinality(OpenFiles') <= faults' + IF pc' = "write" THEN 1 ELSE 0
    BY DEF OpenFiles, OpenOnlyAfterKill
<1>4. CASE Open
    <2>1. flek \in Files /\ info[flek] = "none"
        BY <1>4, AtFlek DEF Open, FlekInv, Asking
    <2>2. OpenFiles' = OpenFiles \cup {flek} /\ flek \notin OpenFiles
        BY <1>4, <2>1 DEF Open, OpenFiles, StoreTypes
    <2>3. Cardinality(OpenFiles') = Cardinality(OpenFiles) + 1
        BY <2>1, <2>2, <1>1, FileSets
    <2>4. QED  BY <1>1, <1>2, <1>4, <2>3 DEF Open
<1>5. CASE Write
    <2>1. flek \in Files /\ info[flek] = "open" /\ result = "good"
        BY <1>5, AtFlek DEF Write, FlekInv
    <2>2. OpenFiles' = OpenFiles \ {flek} /\ flek \in OpenFiles
        BY <1>5, <2>1 DEF Write, OpenFiles, StoreTypes
    <2>3. Cardinality(OpenFiles') = Cardinality(OpenFiles) - 1
        BY <2>1, <2>2, <1>1, FileSets
    <2>4. faults' = faults /\ pc = "write"
        BY <1>5 DEF Write
    <2>5. QED  BY <1>1, <1>2, <2>3, <2>4
<1>6. ASSUME info' = info PROVE OpenFiles' = OpenFiles
    BY <1>6 DEF OpenFiles
<1>7. CASE Kill \/ LoseAnswer
    BY <1>1, <1>2, <1>6, <1>7 DEF Kill, LoseAnswer, Exit
<1>8. CASE UNCHANGED <<info, faults>> /\ (pc # "write" \/ pc' = pc)
    BY <1>1, <1>2, <1>6, <1>8
<1>9. QED
    BY <1>4, <1>5, <1>7, <1>8
       DEF Next, Script, Scanned, vars, Start, Finish, PassBy, SkipFile, TakeFile, ReportFound,
           Count, Submit, Resubmit, Refuse, Wake, Answer
(* A file is left behind without a report only by skipping it.               *)
LEMMA SkippedStep == ASSUME IInv, [Next]_vars, TypeOK' PROVE SkippedInv'
<1> USE DEF IInv, SkippedInv
<1>1. /\ params.skip \in Nat /\ processed \in Nat
      /\ Skipped \in SUBSET Files /\ Cardinality(Skipped) \in Nat
    BY PassedFiles, FileSets DEF TypeOK, ScriptTypes, Skipped
<1>2. pc \in Asking \cup {"write", "ask"} => pos <= Len(Lst)
    BY DEF FlekInv
<1>3. \A f \in Files : info'[f] = "none" => info[f] = "none"
    BY AtFlek
       DEF Next, Script, vars, Start, Finish, PassBy, SkipFile, TakeFile, ReportFound, Count,
           Submit, Resubmit, Refuse, Wake, Open, Write, Answer, LoseAnswer, Kill, Scanned,
           TypeOK, StoreTypes, FlekInv, Asking
<1>4. ASSUME Exit PROVE SkippedInv'
    <2>1. Skipped' = {} /\ params'.skip = 0 /\ processed' = 0
        BY <1>4 DEF Exit, Skipped, Passed
    <2>2. QED  BY <2>1, FS_EmptySet
<1>5. ASSUME Skipped' \subseteq Skipped, params' = params, processed' \in {processed, processed + 1}
      PROVE  SkippedInv'
    <2>1. Cardinality(Skipped') <= Cardinality(Skipped) /\ Cardinality(Skipped') \in Nat
        BY <1>1, <1>5, FileSets
    <2>2. QED  BY <1>1, <1>5, <2>1
<1>6. ASSUME pos' = pos, submitted \subseteq submitted' PROVE Skipped' \subseteq Skipped
    <2>1. Passed' = Passed /\ Passed \subseteq Files
        BY <1>6, PassedFiles DEF Passed
    <2>2. QED  BY <1>3, <1>6, <2>1 DEF Skipped, Unreported
<1>7. ASSUME Continue, pos <= Len(Lst), submitted \subseteq submitted'
      PROVE  Skipped' \subseteq Skipped \cup {flek}
    <2>1. Passed' = Passed \cup {flek} /\ Passed \subseteq Files
        BY <1>7, AtFlek, PassedFiles DEF Continue
    <2>2. QED  BY <1>3, <1>7, <2>1 DEF Skipped, Unreported
<1>8. ASSUME Continue, pos <= Len(Lst), submitted \subseteq submitted',
             flek \notin Present \/ info'[flek] # "none" \/ flek \in submitted'
      PROVE  Skipped' \subseteq Skipped
    <2>1. flek \notin Skipped'
        BY <1>8 DEF Skipped, Unreported
    <2>2. QED  BY <1>7, <1>8, <2>1
<1>9. CASE Start
    <2>1. Skipped = {} /\ Skipped' = {} /\ processed' = 0
        BY <1>9 DEF Start, IdleInv, Skipped, Passed, counts
    <2>2. params'.skip \in Nat
        BY DEF TypeOK, ScriptTypes
    <2>3. QED  BY <2>1, <2>2, FS_EmptySet
<1>10. CASE Finish \/ LoseAnswer \/ Kill
    BY <1>10, <1>4 DEF Finish, LoseAnswer, Kill
<1>11. CASE PassBy
    BY <1>11, <1>5, <1>8 DEF PassBy, IsPassedBy, Continue, counts
<1>12. CASE SkipFile
    <2>1. Skipped' \subseteq Skipped \cup {flek} /\ flek \in Files
        BY <1>12, <1>7, AtFlek DEF SkipFile
    <2>2. /\ Skipped \cup {flek} \in SUBSET Files
          /\ Cardinality(Skipped \cup {flek}) <= Cardinality(Skipped) + 1
          /\ Cardinality(Skipped \cup {flek}) \in Nat
        BY <1>1, <2>1, FileSets
    <2>3. /\ Cardinality(Skipped') <= Cardinality(Skipped) + 1
          /\ Cardinality(Skipped') \in Nat
        BY <1>1, <2>1, <2>2, FileSets
    <2>4. processed <= params.skip /\ processed' = processed + 1 /\ params' = params
        BY <1>12 DEF SkipFile, Continue
    <2>5. QED  BY <1>1, <2>3, <2>4
<1>13. CASE TakeFile \/ ReportFound \/ Count \/ Refuse \/ Wake \/ Open
    BY <1>13, <1>5, <1>6 DEF TakeFile, ReportFound, Count, Refuse, Wake, Open, counts
<1>14. CASE Submit
    BY <1>14, <1>2, <1>5, <1>8 DEF Submit, Accepted, Continue, Asking
<1>15. CASE Resubmit
    BY <1>15, <1>2, <1>5, <1>6, <1>8 DEF Resubmit, Accepted, Done, Continue, Asking
<1>16. CASE Write
    <2>1. flek \in Files /\ pos <= Len(Lst)
        BY <1>16, <1>2, AtFlek DEF Write
    <2>2. info'[flek] # "none"
        BY <1>16, <2>1 DEF Write, TypeOK, StoreTypes, FlekInv
    <2>3. QED  BY <1>16, <2>1, <2>2, <1>5, <1>6, <1>8 DEF Write, Done, Continue
<1>17. CASE Answer
    <2>1. CASE Exit
        BY <2>1, <1>4
    <2>2. CASE Continue /\ UNCHANGED counts
        BY <1>17, <2>2, <1>2, <1>5, <1>8 DEF Answer, Continue, counts, FlekInv
    <2>3. QED  BY <1>17, <2>1, <2>2 DEF Answer
<1>18. CASE UNCHANGED <<params, pos, counts>>
    BY <1>18, <1>5, <1>6 DEF counts
<1>19. QED
    BY <1>9, <1>10, <1>11, <1>12, <1>13, <1>14, <1>15, <1>16, <1>17, <1>18
       DEF Next, Script, Scanned, vars

LEMMA Invariance == Spec => []IInv
<1>1. IInv /\ [Next]_vars => IInv'
    <2> SUFFICES ASSUME IInv, [Next]_vars PROVE IInv'
        OBVIOUS
    <2>1. TypeOK'
        BY StoreTypesStep, ScriptTypesStep DEF TypeOK
    <2>2. QED
        BY <2>1, FlekStep, SubmittedStep, OpenStep, SkippedStep DEF IInv
<1>2. QED  BY <1>1, Initially, PTL DEF Spec

-----------------------------------------------------------------------------
(* No file is submitted twice in a run, however long the list, whatever the  *)
(* service answers (virustotal_report.py:76, 136).                          *)
THEOREM SubmissionsAreFiles == Spec => []CountsFiles
BY Invariance, PTL DEF IInv, SubmittedInv

(* Every .info that was begun and not finished is the work of a kill of its  *)
(* own (virustotal_report.py:144-149).                                      *)
THEOREM OpenIsFromKill == Spec => []OpenOnlyAfterKill
BY Invariance, PTL DEF IInv

(* A stored report stays, over any number of runs and kills (lines 56, 111). *)
THEOREM StoredForGood == Spec => StoredIsKept
<1>1. IInv /\ IInv' /\ [Next]_vars =>
         [\A f \in Files : /\ info'[f] \in {"none", "open", "good"}
                           /\ info[f] = "good" => info'[f] = "good"]_vars
    <2> SUFFICES ASSUME IInv, IInv', [Next]_vars, NEW f \in Files
                 PROVE  /\ info'[f] \in {"none", "open", "good"}
                        /\ info[f] = "good" => info'[f] = "good"
        OBVIOUS
    <2>1. info'[f] \in {"none", "open", "good"} /\ info \in [Files -> {"none", "open", "good"}]
        BY DEF IInv, TypeOK, StoreTypes
    <2>2. CASE Open
        BY <2>1, <2>2 DEF Open, IInv, FlekInv, Asking
    <2>3. CASE Write
        BY <2>1, <2>3 DEF Write, IInv, FlekInv
    <2>4. CASE info' = info
        BY <2>1, <2>4
    <2>5. QED
        BY <2>1, <2>2, <2>3, <2>4
           DEF Next, Script, vars, Start, Finish, PassBy, SkipFile, TakeFile, ReportFound, Count,
               Submit, Resubmit, Refuse, Wake, Answer, LoseAnswer, Kill, Scanned
<1>2. QED  BY <1>1, Invariance, PTL DEF Spec, StoredIsKept

(* A run that gets to the end has submitted all files without an .info but    *)
(* the first skip + 1 of them (virustotal:57-60).                           *)
THEOREM RunsCoverFiles == Spec => RunCoversFiles
<1>1. IInv => [Finish => Cardinality(Unreported \ submitted) <= params.skip + 1]_vars
    <2> SUFFICES ASSUME IInv, Finish
                 PROVE  Cardinality(Unreported \ submitted) <= params.skip + 1
        OBVIOUS
    <2>1. pos = Len(Lst) + 1
        BY ListFacts DEF Finish, IInv, TypeOK, ScriptTypes
    <2>2. Passed = Files
        BY <2>1, ListFacts DEF Passed
    <2>3. Skipped = Unreported \ submitted
        BY <2>2, ListFacts DEF Skipped, Unreported
    <2>4. QED  BY <2>3 DEF IInv, SkippedInv
<1>2. QED  BY <1>1, Invariance, PTL DEF RunCoversFiles
=============================================================================
