------------------------------- MODULE Rescan -------------------------------
(***************************************************************************)
(* Re-scanning what was delivered (rescanTorrent of main.go).  The history *)
(* page and the HTTP handler both start it, and nothing keeps two scans    *)
(* from working on the same files, nor a deletion from taking the files of *)
(* a scan under way.                                                       *)
(*                                                                         *)
(* A delivered download is found on disk, by the identity its scan report  *)
(* records.  A download in a folder keeps the report there; downloads of a *)
(* single file lie in the root itself and share the root's one report.     *)
(***************************************************************************)
EXTENDS Naturals, FiniteSets

CONSTANTS
  Folders,  \* downloads delivered as a folder, of two files
  Singles,  \* downloads of a single file
  Jobs,     \* numbers: re-scans under way at once, a bound
  Starts,   \* bound: re-scans started
  Deletes,  \* bound: deletions from the history
  Troubles, \* bound: files that are bad or that no engine can judge
  Faults,   \* bound: moves, isolations, reports and judgements that fail
  None

ASSUME NoneIsNoDownload == None \notin Folders \union Singles
ASSUME ReportsAreTold == Folders \intersect Singles = {} /\ "top" \notin Folders

VARIABLES
  place,    \* per file, the root it is below, or "gone"
  report,   \* per root and folder ("top": the root itself), whose report it is
  record,   \* per download, the store's row
  seeded,   \* downloads the seeding client has
  scans,    \* m.fileScans, per download and file
  loaded,   \* downloads the torrent client has
  nature,   \* per file, what today's engines make of it
  job,      \* per job, where it is
  ours,     \* per job, the row it has read and is about to write back
  started, deleted, faults,  \* counters of the bounds
  stuck,    \* history: files that could not be moved or isolated
  strayed,  \* history: downloads whose files were taken for another's, or
            \* whose report could not be written
  raced     \* history: downloads a second scan or a deletion met in a scan

disk    == <<place, report>>
records == <<record, seeded, scans>>
world   == <<loaded, nature>>
bounds  == <<started, deleted>>
history == <<strayed, raced>>
errors  == <<faults, stuck>>
rescan  == <<disk, records, world, job, ours, bounds, history, errors>>

Downloads == Folders \union Singles
Files     == {[of |-> d, n |-> i] : d \in Folders, i \in 1..2}
               \union {[of |-> d, n |-> 1] : d \in Singles}
FilesOf(d) == {f \in Files : f.of = d}

Roots  == {"clean", "scan", "quarantine"}
Keys   == Folders \union {"top"}
Key(d) == IF d \in Folders THEN d ELSE "top"

\* A file, and the root it was found below.
Targets == [file : Files, root : {"clean", "scan"}]

Results == {"none", "clean", "unscanned", "threats_found"}
Row     == [here : BOOLEAN, seeding : BOOLEAN, result : Results]
NoRow   == [here |-> FALSE, seeding |-> FALSE, result |-> "none"]

Idle == [pc |-> "idle", id |-> None, targets |-> {}, todo |-> {}, moved |-> {},
         result |-> "none"]
Running(j) == job[j].pc # "idle"
Holders(d) == {j \in Jobs : job[j].id = d}

\* The folder of d at r, or its file in r: the files of it.
Item(r, d) == {f \in FilesOf(d) : place[f] = r}

\* What the delivery pass left: each download whole, with report and row.
RescanInit ==
  /\ \E at \in [Downloads -> {"clean", "scan"}] :
       /\ place = [f \in Files |-> at[f.of]]
       /\ record = [d \in Downloads |->
                   [here |-> TRUE, seeding |-> TRUE,
                    result |-> IF at[d] = "clean" THEN "clean" ELSE "unscanned"]]
       /\ seeded = {d \in Downloads : at[d] = "clean"}
       /\ report \in [Roots -> [Keys -> Downloads \union {None}]]
       /\ \A r \in Roots :
            /\ \A k \in Folders : report[r][k] = IF at[k] = r THEN k ELSE None
            /\ report[r]["top"] \in
                 LET here == {d \in Singles : at[d] = r} IN IF here = {} THEN {None} ELSE here
  /\ scans = [d \in Downloads |-> [f \in Files |-> "none"]]
  /\ loaded \in {{}, Folders}
  /\ nature \in {of \in [Files -> {"clean", "threat", "unscanned"}] :
                  Cardinality({f \in Files : of[f] # "clean"}) <= Troubles}
  /\ job = [j \in Jobs |-> Idle]
  /\ ours = [j \in Jobs |-> NoRow]
  /\ started = 0 /\ deleted = 0 /\ faults = 0
  /\ stuck = {} /\ strayed = {} /\ raced = {}

RescanTypeOK ==
  /\ place \in [Files -> Roots \union {"gone"}]
  /\ report \in [Roots -> [Keys -> Downloads \union {None}]]
  /\ record \in [Downloads -> Row]
  /\ seeded \subseteq Downloads
  /\ scans \in [Downloads -> [Files -> {"none", "clean", "threat", "unscanned"}]]
  /\ loaded \subseteq Folders
  /\ nature \in [Files -> {"clean", "threat", "unscanned"}]
  /\ job \in [Jobs -> [pc : {"idle", "collect", "scan", "move", "get", "set", "seed", "clear"},
                       id : Downloads \union {None},
                       targets : SUBSET Targets, todo : SUBSET Targets, moved : SUBSET Targets,
                       result : Results]]
  /\ \A j \in Jobs : Running(j) <=> job[j].id # None
  /\ ours \in [Jobs -> Row]
  /\ stuck \subseteq Files
  /\ strayed \subseteq Downloads /\ raced \subseteq Downloads

-----------------------------------------------------------------------------
(* rescanTorrent                                                           *)

\* A scan is asked for by the identity a report records.
Start(j, d) ==
  /\ started < Starts
  /\ started' = started + 1
  /\ ~Running(j) /\ \A i \in Jobs : i < j => Running(i)
  /\ \E r \in Roots, k \in Keys : report[r][k] = d
  /\ job' = [job EXCEPT ![j].pc = "collect", ![j].id = d]
  /\ raced' = raced \union (IF Holders(d) = {} THEN {} ELSE {d})
  /\ UNCHANGED <<disk, records, world, ours, deleted, strayed, errors>>

\* The files of a torrent the client has, in the first root that has each.
RegisteredTargets(d) == {f \in FilesOf(d) : place[f] \in {"clean", "scan"}}

\* collectDelivered.  A report in the root stands for everything below it.
Below(r) == {f \in Files : place[f] = r}
CollectDelivered(r, d) ==
  IF report[r]["top"] = d THEN Below(r)
  ELSE {f \in Below(r) : f.of \in Folders /\ report[r][f.of] = d}

\* diskRescanFiles: the first root with a report of d.
HasReport(r, d) == \E k \in Keys : report[r][k] = d
DiskTargets(d) ==
  CASE HasReport("clean", d) -> CollectDelivered("clean", d)
    [] HasReport("scan", d) /\ ~HasReport("clean", d) -> CollectDelivered("scan", d)
    [] OTHER -> {}

\* What is found, with the root each file lies below.
Found(d) == {[file |-> f, root |-> place[f]] :
               f \in IF d \in loaded THEN RegisteredTargets(d) ELSE DiskTargets(d)}

End(j) == job' = [job EXCEPT ![j] = Idle]

\* Nothing found, an unknown download or an empty folder: the scan is over.
Collect(j) ==
  /\ job[j].pc = "collect"
  /\ LET d == job[j].id
         owners == {t.file.of : t \in Found(d)}
     IN /\ IF Found(d) = {} THEN End(j)
           ELSE job' = [job EXCEPT ![j].pc = "scan", ![j].targets = Found(d), ![j].todo = Found(d)]
        /\ strayed' = strayed \union (IF owners \subseteq {d} THEN {} ELSE owners \union {d})
  /\ UNCHANGED <<disk, records, world, ours, bounds, raced, errors>>

\* A step that fails, as long as the bound allows.
Fault(failed) ==
  /\ failed => faults < Faults
  /\ faults' = IF failed THEN faults + 1 ELSE faults

\* scanPath, as far as a re-scan sees it: a file that is gone and one that no
\* engine can judge come out "unscanned", and a threat is quarantined.
Verdict(t) == IF place[t.file] # t.root THEN "unscanned" ELSE nature[t.file]

\* Targets are taken in the order of the directory.
InOrder(S) == {t \in S : \A u \in S : u.file.of = t.file.of => t.file.n <= u.file.n}

\* The engines may fail this time, and so may the isolation of a threat, which
\* then stays where it is.
Scan(j, t) ==
  /\ job[j].pc = "scan" /\ t \in InOrder(job[j].todo)
  /\ \E v \in {Verdict(t), "unscanned"}, stays \in BOOLEAN :
       /\ stays => v = "threat"
       /\ Fault(stays \/ v # Verdict(t))
       /\ scans' = [scans EXCEPT ![job[j].id][t.file] = v]
       /\ place' = IF v = "threat" /\ ~stays THEN [place EXCEPT ![t.file] = "quarantine"]
                  ELSE place
       /\ stuck' = IF stays THEN stuck \union {t.file} ELSE stuck
  /\ job' = [job EXCEPT ![j].todo = @ \ {t}]
  /\ UNCHANGED <<report, record, seeded, world, ours, bounds, history>>

\* Manager.ScanSummary: every record kept for the download counts.
Scans(d) == {scans[d][f] : f \in Files}
LenientSummary(d) == IF "clean" \in Scans(d) THEN "clean" ELSE "unscanned"
Summary(d) ==
  CASE "threat" \in Scans(d) -> "threats_found"
    [] "threat" \notin Scans(d) /\ "unscanned" \in Scans(d) -> "unscanned"
    [] OTHER -> "clean"

Destination(result) == CASE result = "threats_found" -> "quarantine"
                         [] result = "clean"         -> "clean"
                         [] OTHER                    -> "scan"

Summarise(j) ==
  /\ job[j].pc = "scan" /\ job[j].todo = {}
  /\ LET result == Summary(job[j].id) IN
       job' = [job EXCEPT ![j].pc = "move", ![j].result = result,
                 ![j].todo = IF result = "unscanned" THEN {}
                             ELSE {t \in job[j].targets : t.root # Destination(result)}]
  /\ UNCHANGED <<disk, records, world, ours, bounds, history, errors>>

\* moveRescanFiles, one file: what is no longer there is passed over, and what
\* cannot be moved stays; either way the next one follows.
Move(j, t) ==
  /\ job[j].pc = "move" /\ t \in InOrder(job[j].todo)
  /\ \E moves \in IF place[t.file] = t.root THEN BOOLEAN ELSE {FALSE} :
       LET fails == place[t.file] = t.root /\ ~moves
       IN /\ Fault(fails)
          /\ stuck' = IF fails THEN stuck \union {t.file} ELSE stuck
          /\ place' = IF moves THEN [place EXCEPT ![t.file] = Destination(job[j].result)] ELSE place
          /\ job' = [job EXCEPT ![j].todo = @ \ {t},
                               ![j].moved = IF moves THEN @ \union {t} ELSE @]
  /\ UNCHANGED <<report, records, world, ours, bounds, history>>

\* pruneEmptyDeliveredDir: a folder files were moved from, left with its
\* report alone, goes.
Emptied(j, r, k) ==
  /\ k \in Folders /\ Item(r, k) = {}
  /\ \E t \in job[j].moved : t.root = r /\ t.file.of = k

\* writeScanReport, next to the first target's destination, unless it fails.
OwnRoot(j, first) == first.root
ReportRoot(j, first) == Destination(job[j].result)

Report(j, first) ==
  /\ job[j].pc = "move" /\ job[j].todo = {} /\ first \in InOrder(job[j].targets)
  /\ LET pruned == [r \in Roots |-> [k \in Keys |->
                      IF Emptied(j, r, k) THEN None ELSE report[r][k]]]
         written == [pruned EXCEPT ![ReportRoot(j, first)][Key(first.file.of)] = job[j].id]
     IN \/ Fault(FALSE) /\ report' = written /\ UNCHANGED strayed
        \/ Fault(TRUE) /\ report' = pruned
             /\ strayed' = strayed \union {job[j].id, first.file.of}
  /\ job' = [job EXCEPT ![j].pc = "get"]
  /\ UNCHANGED <<place, records, world, ours, bounds, raced, stuck>>

\* The row, if it is there, is read; then written with the verdict, and with the
\* Seeding mark it had when it was read.
Get(j) ==
  /\ job[j].pc = "get"
  /\ IF record[job[j].id].here
     THEN /\ job' = [job EXCEPT ![j].pc = "set"]
          /\ ours' = [ours EXCEPT ![j] = [record[job[j].id] EXCEPT !.result = job[j].result]]
     ELSE /\ job' = [job EXCEPT ![j].pc = "seed"]
          /\ UNCHANGED ours
  /\ UNCHANGED <<disk, records, world, bounds, history, errors>>

Set(j) ==
  /\ job[j].pc = "set"
  /\ record' = [record EXCEPT ![job[j].id] = ours[j]]
  /\ job' = [job EXCEPT ![j].pc = "seed"]
  /\ ours' = [ours EXCEPT ![j] = NoRow]
  /\ UNCHANGED <<disk, seeded, scans, world, bounds, history, errors>>

\* The row is read once more, and the seeding brought in line with the verdict.
\* SeedNow takes none but a clean row; it may fail, or the switch be off.
StillSeeded(d) == seeded
Unseeded(d) == seeded \ {d}

Seed(j) ==
  /\ job[j].pc = "seed"
  /\ LET d == job[j].id
         now == record[d]
     IN \/ /\ ~now.here
           /\ End(j) /\ UNCHANGED <<seeded, ours>>
        \/ /\ now.here /\ job[j].result = "clean"
           /\ seeded' \in {seeded, IF now.seeding /\ now.result = "clean"
                                  THEN seeded \union {d} ELSE seeded}
           /\ End(j) /\ UNCHANGED ours
        \/ /\ now.here /\ job[j].result # "clean"
           /\ seeded' = Unseeded(d)
           /\ IF now.seeding
              THEN /\ job' = [job EXCEPT ![j].pc = "clear"]
                   /\ ours' = [ours EXCEPT ![j] = [now EXCEPT !.seeding = FALSE]]
              ELSE End(j) /\ UNCHANGED ours
  /\ UNCHANGED <<disk, record, scans, world, bounds, history, errors>>

\* The mark is cleared in what was read, and that is written.
Unmark(j) ==
  /\ job[j].pc = "clear"
  /\ record' = [record EXCEPT ![job[j].id] = ours[j]]
  /\ End(j)
  /\ ours' = [ours EXCEPT ![j] = NoRow]
  /\ UNCHANGED <<disk, seeded, scans, world, bounds, history, errors>>

Work(j) ==
  \/ Collect(j) \/ Summarise(j) \/ Get(j) \/ Set(j) \/ Seed(j) \/ Unmark(j)
  \/ \E t \in job[j].todo : Scan(j, t) \/ Move(j, t)
  \/ \E t \in job[j].targets : Report(j, t)

-----------------------------------------------------------------------------
(* Deletion from the history, of one entry                                 *)

\* The entry of d at r, and the download its report names.
Listed(r, d) == Item(r, d) # {} \/ (d \in Folders /\ report[r][d] # None)
Named(r, d)  == report[r][Key(d)]

Delete(r, d) ==
  /\ deleted < Deletes
  /\ deleted' = deleted + 1
  /\ Listed(r, d)
  /\ place' = [f \in Files |-> IF f \in Item(r, d) THEN "gone" ELSE place[f]]
  /\ report' = IF d \in Folders THEN [report EXCEPT ![r][d] = None] ELSE report
  /\ seeded' = seeded \ {Named(r, d)}
  /\ record' = IF Named(r, d) = None THEN record
            ELSE [record EXCEPT ![Named(r, d)] = NoRow]
  /\ raced' = raced \union {e \in {d, Named(r, d)} \ {None} : Holders(e) # {}}
  /\ strayed' = strayed \union (IF Named(r, d) \in {d, None} THEN {} ELSE {d, Named(r, d)})
  /\ UNCHANGED <<scans, world, job, ours, started, errors>>

RescanNext ==
  \/ \E j \in Jobs : Work(j) \/ \E d \in Downloads : Start(j, d)
  \/ \E d \in Downloads, r \in Roots : Delete(r, d)

RescanSpec == RescanInit /\ [][RescanNext]_rescan

-----------------------------------------------------------------------------

Settled(d) == Holders(d) = {} /\ record[d].here /\ d \notin strayed

(* When no re-scan of a download is under way, its row and its folders     *)
(* agree, even if two scans of it or a deletion met: after a threat        *)
(* nothing of it is left among the clean files but what could not be moved *)
(* away, and a clean verdict means that nothing else of it waits           *)
(* unscanned.  And unless they met, only what is clean is seeded.  All     *)
(* this unless files of several downloads were taken for one's (the moves, *)
(* the row and the seeding at the end of rescanTorrent).                   *)
VerdictIsDone ==
  \A d \in Downloads : Settled(d) =>
    /\ record[d].result = "threats_found" => Item("clean", d) \subseteq stuck
    /\ record[d].result = "clean" => Item("scan", d) \subseteq stuck
    /\ d \in seeded /\ d \notin raced => record[d].result = "clean"

(* The row of a download with a file in quarantine tells of the threat,    *)
(* unless two scans of it met: the one that finds the file gone by then    *)
(* writes over the other's record of it (scanPath and ScanSummary).  Nor   *)
(* if a file of it could not be isolated: a later scan finds it where it   *)
(* was, and its engines may not be able to judge it then.                  *)
ThreatIsRecorded ==
  \A d \in Downloads :
    Settled(d) /\ d \notin raced /\ FilesOf(d) \intersect stuck = {}
      /\ Item("quarantine", d) # {} => record[d].result = "threats_found"

(* A download that lies in a delivery folder can be found again: a report  *)
(* there names it, whatever its last scan said and however its files were  *)
(* moved, or not moved; a single file may find there the report of         *)
(* another, which shares the place (writeScanReport, if it succeeds, and   *)
(* the pruning of moveRescanFiles, against diskRescanFiles).               *)
StaysFindable ==
  \A d \in Downloads, r \in {"clean", "scan"} :
    Settled(d) /\ Item(r, d) # {} =>
      \E e \in Downloads : Key(e) = Key(d) /\ report[r][Key(d)] = e

=============================================================================
