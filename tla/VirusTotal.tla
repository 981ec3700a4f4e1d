----------------------------- MODULE VirusTotal -----------------------------
(***************************************************************************)
(* The script scripts/virustotal, which collects reports on a list of files *)
(* from a public service, with virustotal_report.py, which it calls for     *)
(* every request.  A run takes the files one after the other: it fetches    *)
(* the report of a file, or submits the file, or submits it again when the  *)
(* report is poor, and stores a good one beside the file.  A refused        *)
(* submission is repeated after five minutes; any other failure ends the    *)
(* run, and so does whoever stops it.  What is stored is all that the next  *)
(* run knows.                                                               *)
(***************************************************************************)
EXTENDS Integers, Sequences, FiniteSets, SequencesExt

CONSTANTS
    Lst,           \* the listed files, in order (params lst)
    Present,       \* those of them that exist
    Skips,         \* the values of params skip it is run with
    MaxFaults      \* bound on lost answers, files not created and kills

ASSUME ListAssumption ==
    /\ Lst \in Seq(ToSet(Lst)) /\ IsInjective(Lst)
    /\ Present \subseteq ToSet(Lst)
    /\ Skips \subseteq Nat /\ Skips # {} /\ IsFiniteSet(Skips)
    /\ MaxFaults \in Nat

Files == ToSet(Lst)

VARIABLES
    info,          \* the .info of a file: "none", "open" while it is written, or
                   \* the grade of the report in it
    report,        \* the service's report on a file: "none", "poor" when fewer
                   \* scanners than params min recognise it, or "good"
    scans,         \* the files the service has accepted and not scanned yet
    faults,        \* lost answers, files not created and kills so far
    pc,            \* where the script is; "idle" when it does not run
    params,        \* skip, and whether it asks after every report (interactive)
    pos,           \* the place in the list (foreach flek)
    result,        \* the grade of the report last fetched
    processed,     \* files taken or skipped in this run
    resubmitted,   \* submissions that this run counts
    submitted      \* the files it submitted; serves a property only

service == <<report, scans>>
counts == <<processed, resubmitted, submitted>>
vars == <<info, service, faults, pc, params, pos, result, counts>>

flek == Lst[pos]

Init ==
    /\ info = [f \in Files |-> "none"]
    /\ report \in [Present -> {"none", "poor", "good"}]
    /\ scans = {}
    /\ faults = 0
    /\ pc = "idle"
    /\ params = [skip |-> 0, interactive |-> FALSE]
    /\ pos = 1 /\ result = "none" /\ processed = 0 /\ resubmitted = 0 /\ submitted = {}

(* What a run knows is gone with it. *)
Exit ==
    /\ pc' = "idle"
    /\ params' = [skip |-> 0, interactive |-> FALSE]
    /\ pos' = 1 /\ result' = "none" /\ processed' = 0 /\ resubmitted' = 0 /\ submitted' = {}

Continue ==
    /\ pc' = "foreach"
    /\ pos' = pos + 1
    /\ result' = "none"
    /\ UNCHANGED params

-----------------------------------------------------------------------------
(* The service.                                                            *)

(* A scan ends: the report is replaced.  Scanners that recognise a file go   *)
(* on recognising it.                                                       *)
Scanned(f, grade) ==
    /\ f \in scans
    /\ report[f] = "good" => grade = "good"
    /\ scans' = scans \ {f}
    /\ report' = [report EXCEPT ![f] = grade]
    /\ UNCHANGED <<info, faults, pc, params, pos, result, counts>>

-----------------------------------------------------------------------------
(* The script.                                                             *)

(* Somebody runs it, for the first time or again. *)
Start ==
    /\ pc = "idle"
    /\ pc' = "foreach"
    /\ params' \in [skip : Skips, interactive : BOOLEAN]
    /\ UNCHANGED <<info, service, faults, pos, result, counts>>

Finish ==
    /\ pc = "foreach"
    /\ pos > Len(Lst)
    /\ Exit
    /\ UNCHANGED <<info, service, faults>>

(* Mutant: a file that has its report is taken again. *)
IsMissing == flek \notin Present

(* Lines 52-56: there is no such file, or it has its report. *)
IsPassedBy == flek \notin Present \/ info[flek] # "none"

PassBy ==
    /\ pc = "foreach"
    /\ pos <= Len(Lst)
    /\ IsPassedBy
    /\ Continue
    /\ UNCHANGED <<info, service, faults, counts>>

(* Mutant: what is skipped is not counted. *)
SkipUncounted ==
    /\ pc = "foreach"
    /\ pos <= Len(Lst)
    /\ ~IsPassedBy
    /\ processed <= params.skip
    /\ Continue
    /\ UNCHANGED <<info, service, faults, counts>>

(* Lines 57-60: one of the first files without a report is skipped. *)
SkipFile ==
    /\ pc = "foreach"
    /\ pos <= Len(Lst)
    /\ ~IsPassedBy
    /\ processed <= params.skip
    /\ processed' = processed + 1
    /\ Continue
    /\ UNCHANGED <<info, service, faults, resubmitted, submitted>>

TakeFile ==
    /\ pc = "foreach"
    /\ pos <= Len(Lst)
    /\ ~IsPassedBy
    /\ processed > params.skip
    /\ pc' = "get"
    /\ UNCHANGED <<info, service, faults, params, pos, result, counts>>

(* get_report: the service has one (lines 82-85). *)
ReportFound ==
    /\ pc = "get"
    /\ report[flek] # "none"
    /\ result' = report[flek]
    /\ pc' = "count"
    /\ UNCHANGED <<info, service, faults, params, pos, counts>>

(* Mutant: creates the .info before it looks at the report. *)
CountInFile ==
    /\ pc = "count"
    /\ pc' = IF result = "good" THEN "write" ELSE "scan"
    /\ info' = [info EXCEPT ![flek] = "open"]
    /\ UNCHANGED <<service, faults, params, pos, result, counts>>

(* Lines 97-111 and 143: enough scanners recognise the file, or it is to be *)
(* submitted again.                                                         *)
Count ==
    /\ pc = "count"
    /\ pc' = IF result = "good" THEN "open" ELSE "scan"
    /\ UNCHANGED <<info, service, faults, params, pos, result, counts>>

Accepted ==
    /\ scans' = scans \cup {flek}
    /\ resubmitted' = resubmitted + 1
    /\ submitted' = submitted \cup {flek}
    /\ UNCHANGED report

(* Mutant: asks for the report at once (status stays 1). *)
SubmitAndGet ==
    /\ pc = "get"
    /\ Accepted
    /\ UNCHANGED <<info, faults, pc, params, pos, result, processed>>

(* get_report: the service has none, or does not give it now, which          *)
(* virustotal_report.py:72 takes for the same, and takes the file (lines     *)
(* 73-77, 92-95).                                                           *)
Submit ==
    /\ pc = "get"
    /\ Accepted
    /\ processed' = processed + 1
    /\ Continue
    /\ UNCHANGED <<info, faults>>

(* Mutant: goes on with the next file. *)
RefuseAndContinue ==
    /\ pc \in {"get", "scan"}
    /\ Continue
    /\ UNCHANGED <<info, service, faults, counts>>

(* The service refuses the file, for the quota: the script waits and asks     *)
(* again (lines 78-81 and 131-134).                                         *)
Refuse ==
    /\ \/ pc = "get" /\ pc' = "wait to get"
       \/ pc = "scan" /\ pc' = "wait to scan"
    /\ UNCHANGED <<info, service, faults, params, pos, result, counts>>

Wake ==
    /\ \/ pc = "wait to get" /\ pc' = "get"
       \/ pc = "wait to scan" /\ pc' = "scan"
    /\ UNCHANGED <<info, service, faults, params, pos, result, counts>>

(* Where the script goes with a file that is done (lines 159-174). *)
Done ==
    /\ processed' = processed + 1
    /\ IF params.interactive THEN pc' = "ask" /\ UNCHANGED <<params, pos, result>>
                             ELSE Continue

(* The report was poor and the service takes the file again (135-137). *)
Resubmit ==
    /\ pc = "scan"
    /\ Accepted
    /\ Done
    /\ UNCHANGED <<info, faults>>

(* The file is there, with nothing in it yet (line 144). *)
Open ==
    /\ pc = "open"
    /\ info' = [info EXCEPT ![flek] = "open"]
    /\ pc' = "write"
    /\ UNCHANGED <<service, faults, params, pos, result, counts>>

(* The report that was fetched, which is a good one, is written (148-149). *)
Write ==
    /\ pc = "write"
    /\ info' = [info EXCEPT ![flek] = result]
    /\ Done
    /\ UNCHANGED <<service, faults, resubmitted, submitted>>

(* "Y", or anything that is not one upper-case letter, goes on; another      *)
(* letter ends the run (lines 165-174).                                     *)
Answer ==
    /\ pc = "ask"
    /\ \/ Continue /\ UNCHANGED counts
       \/ Exit
    /\ UNCHANGED <<info, service, faults>>

-----------------------------------------------------------------------------
(* Failures.                                                               *)

(* The service's answer is not understood, or there is none; it may have     *)
(* taken the file.  The run ends (lines 86-89 and 138-141).                  *)
LoseAnswer ==
    /\ faults < MaxFaults
    /\ faults' = faults + 1
    /\ pc \in {"get", "scan"}
    /\ \/ UNCHANGED scans
       \/ scans' = scans \cup {flek}
    /\ Exit
    /\ UNCHANGED <<info, report>>

(* The file cannot be created, or the script is stopped, as it may be at any *)
(* moment (lines 144-146; it waits for minutes).                            *)
Kill ==
    /\ faults < MaxFaults
    /\ faults' = faults + 1
    /\ pc # "idle"
    /\ Exit
    /\ UNCHANGED <<info, service>>

Script ==
    \/ Finish \/ PassBy \/ SkipFile \/ TakeFile \/ ReportFound \/ Count \/ Submit \/ Refuse
    \/ Wake \/ Resubmit \/ Open \/ Write \/ Answer

Next ==
    \/ Start
    \/ Script
    \/ LoseAnswer
    \/ Kill
    \/ \E f \in Present, grade \in {"poor", "good"} : Scanned(f, grade)

(* The script goes on while it runs and is run again when it has ended.  A   *)
(* service that is asked again and again, whatever its quota, takes the file *)
(* one day, and gives the report it has on it; a file that is scanned again  *)
(* and again gets a good report.                                            *)
Fairness ==
    /\ WF_vars(Start)
    /\ WF_vars(Script)
    /\ SF_vars(Submit \/ Resubmit)
    /\ \A f \in Present : SF_vars(ReportFound /\ flek = f) /\ SF_vars(Scanned(f, "good"))

Spec == Init /\ [][Next]_vars /\ Fairness

-----------------------------------------------------------------------------
(* The files without an .info, which is all that a run looks at. *)
Unreported == {f \in Present : info[f] = "none"}

(* A report beside a file is a good one, and no later run, crash or second   *)
(* report ever takes it away or cuts it short (lines 56, 111, 144).         *)
StoredIsKept ==
    [][\A f \in Files :
          /\ info'[f] \in {"none", "open", "good"}
          /\ info[f] = "good" => info'[f] = "good"]_vars

(* No file is submitted twice in a run, whatever the service answers and      *)
(* however long the script waits: what it counts are files (lines 76, 136).  *)
CountsFiles == resubmitted = Cardinality(submitted)

(* An .info that was begun and not finished, which every later run takes for *)
(* a report, is the work of a kill (lines 56, 144-149).                     *)
OpenOnlyAfterKill ==
    Cardinality({f \in Files : info[f] = "open"}) <= faults + IF pc = "write" THEN 1 ELSE 0

(* A run that gets to the end of the list has submitted every file that has   *)
(* no .info then, but for the first it skips, which are one more than params *)
(* skip (lines 57-58, 68-95, 122-142).  An .info that a kill left empty is   *)
(* one, too: the run passes it by (OpenOnlyAfterKill).                      *)
RunCoversFiles ==
    [][Finish => Cardinality(Unreported \ submitted) <= params.skip + 1]_vars

(* The files whose report is not stored: they have no .info, or an empty one. *)
Missing == {f \in Present : info[f] # "good"}

(* Every file has its report stored in the end but those that are skipped    *)
(* each time (one more than the largest skip the script goes on being run    *)
(* with) and one for each kill, which may have left an .info empty, however  *)
(* often the service refuses and runs are broken off (virustotal:42-177).    *)
AllReported ==
    \A skip \in Skips :
        <>[](params.skip <= skip) =>
            <>[](/\ Cardinality(Unreported) <= skip + 1
                 /\ Cardinality(Missing) <= skip + 1 + faults)
=============================================================================
