------------------------------ MODULE ScanVerdict ------------------------------
(***************************************************************************)
(* The verdict on one file: the two engines under one deadline             *)
(* (scanner.go), the hash reputation and the behaviour sandbox (main.go's  *)
(* scanPath, sandbox.go).  The configuration and the file are chosen       *)
(* initially, what each engine, lookup and run comes back with is chosen   *)
(* as it happens.  Isolating a threat is module Delivery's.                *)
(*                                                                         *)
(* Three commands run under no deadline and may never return: the compiler *)
(* of the rules, which the scan runs, or waits for another scan to run,    *)
(* under rulesMu; file(1), which tells an executable; and the docker rm    *)
(* that ends a sandbox.                                                    *)
(***************************************************************************)
EXTENDS Naturals

CONSTANTS NetCounts, ExecCounts   \* what a trace may count: calls to the network, execs

ASSUME VerdictAssumption ==
  /\ NetCounts \subseteq Nat /\ ExecCounts \subseteq Nat
  /\ 0 \in NetCounts \intersect ExecCounts

VARIABLES
  cfg,        \* what is configured
  file,       \* what the scan can tell of the file before it reads it
  pc,
  expired,    \* the deadline both engines share has passed
  clam, yara, \* what each engine concluded
  targets,    \* what yara has still to read: the file, and its unpacked tree
  failed,     \* what yara could not read
  combined,   \* what ScanFileStep returns
  lookup,     \* what the reputation service answered
  executable, \* what IsExecutable took the file for
  run,        \* how the sandbox run went
  seen,       \* what its trace shows
  report,     \* what Analyze will return, once it has cleaned up
  verdict     \* what is recorded of the file

verdictVars == <<cfg, file, pc, expired, clam, yara, targets, failed, combined, lookup,
                 executable, run, seen, report, verdict>>

Configs == [socket : BOOLEAN, rules : BOOLEAN, timeout : BOOLEAN, sandbox : BOOLEAN,
            reputation : {"off", "open", "closed"}]
Kinds   == [oversize : BOOLEAN, archive : BOOLEAN,
            executable : {"no", "by_name", "by_content"}]
Engine  == {"none", "clean", "threat", "timed_out", "unavailable"}
Traces  == [shellWrites : BOOLEAN, writesOutsideTmp : BOOLEAN, chmod : BOOLEAN,
            chown : BOOLEAN, mount : BOOLEAN, nNet : NetCounts, nExecs : ExecCounts]

Nothing == [shellWrites |-> FALSE, writesOutsideTmp |-> FALSE, chmod |-> FALSE,
            chown |-> FALSE, mount |-> FALSE, nNet |-> 0, nExecs |-> 0]

\* The steps that wait for a command without a deadline.
Unbounded == {"rules", "type", "cleanup"}

Steps == {"stat", "clamav", "rules", "unpack", "yara", "combine", "decide", "lookup",
          "type", "sandbox", "trace", "judge", "cleanup", "done"}

VerdictTyped ==
  /\ cfg \in Configs
  /\ file \in Kinds
  /\ pc \in Steps
  /\ expired \in BOOLEAN
  /\ clam \in Engine
  /\ yara \in Engine
  /\ targets \subseteq {"file", "tree"}
  /\ failed \subseteq {"file", "tree"}
  /\ combined \in {"none", "skipped", "threat", "error", "clean"}
  /\ lookup \in {"none", "known", "unknown", "failed"}
  /\ executable \in {"none", "no", "yes", "failed"}
  /\ run \in {"none", "refused", "finished", "no_log"}
  /\ seen \in Traces
  /\ report \in {"none", "unscanned", "threat", "clean"}
  /\ verdict \in {"none", "unscanned", "threat", "clean"}

VerdictInit ==
  /\ cfg \in Configs
  /\ file \in Kinds
  /\ pc = "stat"
  /\ expired = FALSE
  /\ clam = "none" /\ yara = "none"
  /\ targets = {} /\ failed = {}
  /\ combined = "none"
  /\ lookup = "none"
  /\ executable = "none"
  /\ run = "none"
  /\ seen = Nothing
  /\ report = "none"
  /\ verdict = "none"

-----------------------------------------------------------------------------
(* ScanFileStep                                                            *)

engines == <<clam, yara, targets, failed>>
sandbox == <<run, seen, report>>
layers  == <<lookup, executable, sandbox, verdict>>

Stat ==
  /\ pc = "stat"
  /\ \/ file.oversize  /\ combined' = "skipped" /\ pc' = "decide"
     \/ ~file.oversize /\ combined' = "none"        /\ pc' = "clamav"
     \/ combined' = "error" /\ pc' = "decide"
  /\ UNCHANGED <<cfg, file, expired, engines, layers>>

\* A bug: the scan runs under no deadline.
NoDeadline  == FALSE

HasDeadline == cfg.timeout

Expires ==
  /\ HasDeadline /\ ~expired
  /\ pc \in {"clamav", "rules", "unpack", "yara"}
  /\ expired' = TRUE
  /\ UNCHANGED <<cfg, file, pc, engines, combined, layers>>

\* An engine that runs past the deadline is killed.  A threat is the exit status
\* 1, which docker exec also has when the container is down.
Clam ==
  /\ pc = "clamav"
  /\ \/ ~cfg.socket /\ clam' = "unavailable"
     \/ cfg.socket /\ expired  /\ clam' = "timed_out"
     \/ cfg.socket /\ ~expired /\ clam' \in {"clean", "threat", "unavailable"}
  /\ pc' = "rules"
  /\ UNCHANGED <<cfg, file, expired, yara, targets, failed, combined, layers>>

\* The set of rules, compiled anew if the directory changed; none may be left.
RuleSet ==
  /\ pc = "rules"
  /\ \/ cfg.rules /\ pc' = "unpack" /\ UNCHANGED yara
     \/ ~cfg.rules /\ pc' = "combine" /\ yara' = "unavailable"
  /\ UNCHANGED <<cfg, file, expired, clam, targets, failed, combined, layers>>

\* An archive that does not unpack is read as it is.
Unpack ==
  /\ pc = "unpack"
  /\ targets' \in {{"file"}} \union
       (IF file.archive /\ ~expired THEN {{"file", "tree"}} ELSE {})
  /\ pc' = "yara"
  /\ UNCHANGED <<cfg, file, expired, clam, yara, failed, combined, layers>>

NextTarget == IF "file" \in targets THEN "file" ELSE "tree"

YaraMatches ==
  /\ pc = "yara" /\ targets # {}
  /\ ~expired
  /\ yara' = "threat"
  /\ targets' = {}
  /\ pc' = "combine"
  /\ UNCHANGED <<cfg, file, expired, clam, failed, combined, layers>>

YaraReads ==
  /\ pc = "yara" /\ targets # {}
  /\ targets' = targets \ {NextTarget}
  /\ failed' \in {failed \union {NextTarget}} \union (IF expired THEN {} ELSE {failed})
  /\ UNCHANGED <<cfg, file, pc, expired, clam, yara, combined, layers>>

YaraOutcome ==
  CASE failed = {}             -> "clean"
    [] failed # {} /\ expired  -> "timed_out"
    [] failed # {} /\ ~expired -> "unavailable"

YaraDone ==
  /\ pc = "yara" /\ targets = {}
  /\ yara' = YaraOutcome
  /\ pc' = "combine"
  /\ UNCHANGED <<cfg, file, expired, clam, targets, failed, combined, layers>>

\* A bug: an engine that timed out hides what the other found.
TimeoutFirst ==
  CASE "timed_out" \in {clam, yara} -> "error"
    [] "timed_out" \notin {clam, yara} /\ "threat" \in {clam, yara} -> "threat"
    [] {clam, yara} = {"clean"} -> "clean"
    [] OTHER -> "error"

\* A threat found by either wins, and clean takes both.
Combined ==
  CASE "threat" \in {clam, yara} -> "threat"
    [] {clam, yara} = {"clean"}  -> "clean"
    [] OTHER                     -> "error"

Combine ==
  /\ pc = "combine"
  /\ combined' = Combined
  /\ pc' = "decide"
  /\ UNCHANGED <<cfg, file, expired, engines, layers>>

-----------------------------------------------------------------------------
(* scanPath                                                                *)

Records(v) == verdict' = v /\ pc' = "done"

Decide ==
  /\ pc = "decide"
  /\ \/ combined = "skipped" /\ Records("unscanned")
     \/ combined = "threat"  /\ Records("threat")
     \/ combined \in {"error", "clean"} /\ pc' = "lookup" /\ UNCHANGED verdict
  /\ UNCHANGED <<cfg, file, expired, engines, combined, lookup, executable, sandbox>>

\* A bug: a lookup that failed never holds a file back.
AlwaysOpen(answer) ==
  CASE answer = "known" -> "threat"
    [] answer # "known" /\ combined = "error" -> "unscanned"
    [] OTHER -> IF cfg.sandbox THEN "none" ELSE "clean"

\* What the reputation makes of it, or leaves open; it never promotes an error.
AfterLookup(answer) ==
  CASE answer = "known" -> "threat"
    [] answer # "known" /\ combined = "error" -> "unscanned"
    [] answer = "failed" /\ combined # "error" /\ cfg.reputation = "closed" -> "unscanned"
    [] OTHER -> IF cfg.sandbox THEN "none" ELSE "clean"

Lookup ==
  /\ pc = "lookup"
  /\ lookup' \in IF cfg.reputation = "off" THEN {"none"} ELSE {"known", "unknown", "failed"}
  /\ LET conclusion == AfterLookup(lookup')
     IN IF conclusion = "none" THEN pc' = "type" /\ UNCHANGED verdict ELSE Records(conclusion)
  /\ UNCHANGED <<cfg, file, expired, engines, combined, executable, sandbox>>

\* An executable has the name of one, or file(1) says so; an error of file(1) is
\* taken for a no, and the file is clean without having been in the sandbox.
IsExecutable ==
  /\ pc = "type"
  /\ \/ file.executable # "no" /\ executable' = "yes" /\ pc' = "sandbox" /\ UNCHANGED verdict
     \/ file.executable = "no" /\ executable' = "no" /\ Records("clean")
     \/ file.executable # "by_name" /\ executable' = "failed" /\ Records("clean")
  /\ UNCHANGED <<cfg, file, expired, engines, combined, lookup, sandbox>>

-----------------------------------------------------------------------------
(* Analyze                                                                 *)

\* The container may not start.  The sample may be refused, run to its end, or
\* leave no log that can be read: strace is missing, or the time is over.
SandboxRuns ==
  /\ pc = "sandbox"
  /\ \/ Records("unscanned") /\ UNCHANGED run
     \/ run' \in {"refused", "finished", "no_log"} /\ pc' = "trace" /\ UNCHANGED verdict
  /\ UNCHANGED <<cfg, file, expired, engines, combined, lookup, executable, seen, report>>

\* What docker exec printed stands in for a log that cannot be read: a text
\* with no syscall in it, unless it is empty.  A refused sample is unknown.
ReadTrace ==
  /\ pc = "trace"
  /\ \/ run = "finished" /\ seen' \in Traces /\ seen'.nExecs > 0
        /\ pc' = "judge" /\ UNCHANGED report
     \/ run = "no_log" /\ seen' = Nothing /\ pc' = "judge" /\ UNCHANGED report
     \/ UNCHANGED seen /\ report' = "unscanned" /\ pc' = "cleanup"
  /\ UNCHANGED <<cfg, file, expired, engines, combined, lookup, executable, run, verdict>>

Points(present, n) == IF present THEN n ELSE 0

\* computeScore
Score(t) ==
  Points(t.shellWrites, 3) + Points(t.writesOutsideTmp, 2) + Points(t.chmod, 1)
    + Points(t.chown, 2) + Points(t.mount, 3)
    + Points(t.nNet > 0, 1) + Points(t.nNet > 3, 1)
    + Points(t.nExecs > 1, 1) + Points(t.nExecs > 5, 1)

behaviorVerdict(score) ==
  CASE score >= 5 -> "malicious"
    [] score \in 2 .. 4 -> "suspicious"
    [] score < 2 -> "clean"

Judge ==
  /\ pc = "judge"
  /\ report' = IF behaviorVerdict(Score(seen)) = "clean" THEN "clean" ELSE "threat"
  /\ pc' = "cleanup"
  /\ UNCHANGED <<cfg, file, expired, engines, combined, lookup, executable, run, seen, verdict>>

\* The container is removed before Analyze returns.
CleanUp ==
  /\ pc = "cleanup"
  /\ Records(report)
  /\ UNCHANGED <<cfg, file, expired, engines, combined, lookup, executable, sandbox>>

-----------------------------------------------------------------------------

EngineStep == Clam \/ Unpack \/ YaraMatches \/ YaraReads

\* The steps of the scan itself, or under the deadline of a lookup or a sandbox.
OwnStep ==
  \/ Stat \/ YaraDone \/ Combine \/ Decide \/ Lookup
  \/ SandboxRuns \/ ReadTrace \/ Judge

VerdictNext == Expires \/ EngineStep \/ RuleSet \/ OwnStep \/ IsExecutable \/ CleanUp

\* An engine may hang until the deadline stops it, and RuleSet, IsExecutable and
\* CleanUp for good: nothing is assumed of these.
VerdictFairness ==
  /\ WF_verdictVars(Expires)
  /\ WF_verdictVars(expired /\ EngineStep)
  /\ WF_verdictVars(OwnStep)

VerdictSpec == VerdictInit /\ [][VerdictNext]_verdictVars /\ VerdictFairness

-----------------------------------------------------------------------------
(* Properties                                                              *)

\* The two failures that the code does take for the all-clear: file(1) did not
\* say whether the file is an executable, and the sandbox run left no log.
FailsOpen == executable = "failed" \/ run = "no_log"

\* But for these the verdict fails closed.  A clean file was read by both
\* engines, by yara down to the last target; it is not known to the reputation
\* service, which did answer if its failures count; and if it is an executable
\* and there is a sandbox, a run of it was traced to its end and is harmless.
CleanIsFullyChecked ==
  verdict = "clean" =>
    /\ clam = "clean" /\ yara = "clean"
    /\ targets = {} /\ failed = {}
    /\ lookup # "known"
    /\ cfg.reputation = "closed" => lookup = "unknown"
    /\ cfg.sandbox /\ file.executable # "no" /\ ~FailsOpen =>
         run = "finished" /\ Score(seen) < 2

\* What any layer knows against the file decides, whatever failed around it;
\* and without such evidence no file is taken for a threat.
Evidence ==
  \/ "threat" \in {clam, yara}
  \/ lookup = "known"
  \/ run # "none" /\ Score(seen) >= 2

ThreatIffEvidence == pc = "done" => (verdict = "threat" <=> Evidence)

\* With a scan timeout the scan of a file ends with a verdict, however its
\* engines hang, unless it waits for good for a command without a deadline.
ScanEnds == cfg.timeout ~> ((pc = "done" /\ verdict # "none") \/ [](pc \in Unbounded))

=============================================================================
