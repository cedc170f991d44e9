--------------------------- MODULE CaptureProofs ----------------------------
(***************************************************************************)
(* Proofs about Capture, for any number of xtask processes, any crates,    *)
(* trees and scenarios.  Nothing in xtask keeps two processes from working *)
(* in one directory; that a report's files are one set is proved of        *)
(* processes that do not (Separate), which is every history of one process *)
(* at a time.  CaptureRunProofs says of a capture's directory what holds   *)
(* when they may.                                                          *)
(***************************************************************************)
EXTENDS Capture, TLAPS

\* The directories a process works in, a capture's until it is started again.
Uses(p) == {job[p].dir, job[p].out} \ {NONE}

\* No two processes share one.
Separate == \A p, q \in Procs : p # q => Uses(p) \intersect Uses(q) = {}

JobFields == {"mode", "run", "dir", "todo", "failed", "at", "built", "out", "ok", "cleared", "result"}

IsJob(j) == j = [f \in JobFields |-> j[f]]

WritesReport == {"latency", "perfstat"}

\* The steps of write_run that come after its first write.
AfterMd == {"csv", "clear_hdr", "hdr", "gnuplot"}

\* A job's directories and the pass it is in fit together.
Placed(p, j) ==
  /\ IsJob(j)
  /\ j.dir \in {NONE} \union {Published(id) : id \in RunIds}
  /\ j.mode = "capture" => j.dir # NONE
  /\ j.at = "environment" => j.mode = "capture"
  /\ j.out \in {NONE} \union Dirs
  /\ j.at \in {"md"} \union AfterMd => Head(j.todo).kind \in WritesReport /\ j.built \in Trees
  /\ j.at = "raw" => Head(j.todo).kind \in {"cross_core", "alloc"}
  /\ j.at \in AfterMd \/ (j.at = "run" /\ j.ok /\ Head(j.todo).kind \in WritesReport) =>
       /\ j.built \in Trees
       /\ Head(j.todo).kind = "perfstat" => j.out = Temp(p)
       /\ Head(j.todo).kind = "latency" =>
            IF j.mode = "capture" THEN j.out = j.dir ELSE j.out \in {Scratch(id) : id \in RunIds}

JobsPlaced ==
  /\ tree \in Trees
  /\ fs = [d \in Dirs |-> fs[d]]
  /\ job = [p \in Procs |-> job[p]]
  /\ \A p \in Procs : Placed(p, job[p])

StampOf(j) == [run |-> j.run, pass |-> Head(j.todo).kind]

\* The file is there, as this job made it.
Has(j, D, f) == f \in DOMAIN D /\ D[f] = StampOf(j)

HdrsIn(D, c) == {f \in DOMAIN D : f[2] = c /\ f[3] = "hdr"}

Measured(j) == {Hdr(Head(j.todo).crate, l) : l \in Scenarios[j.built]}

HasAll(j, D, exts) == \A e \in exts : Has(j, D, ReportFile(Head(j.todo).crate, e))

\* What of a job's report is in the directory D after each step of write_run.
Own(j, D) ==
  LET c == Head(j.todo).crate
  IN  /\ j.at = "csv" => HasAll(j, D, {"md"})
      /\ j.at \in {"clear_hdr", "hdr"} => HasAll(j, D, {"md", "csv"})
      /\ j.at = "hdr" /\ j.cleared => HdrsIn(D, c) = {}
      /\ j.at = "gnuplot" =>
           /\ HasAll(j, D, {"md", "csv"})
           /\ \A f \in Measured(j) : Has(j, D, f)
           /\ j.cleared => HdrsIn(D, c) = Measured(j)
      /\ j.at = "run" /\ j.ok /\ Head(j.todo).kind \in WritesReport =>
           /\ HasAll(j, D, {"md", "csv", "gnuplot"})
           /\ \A f \in Measured(j) : Has(j, D, f)
           /\ j.cleared => HdrsIn(D, c) = Measured(j)

JobsOwn == \A p \in Procs : Own(job[p], fs[job[p].out])

\* The number of passes a capture has behind it.
Done(j) == Len(CapturePasses) - Len(j.todo)

\* A running capture works through the list of passes, in order.
Schedule(j) ==
  /\ j.todo \in Seq(Range(CapturePasses)) /\ Len(j.todo) <= Len(CapturePasses)
  /\ \A i \in 1 .. Len(j.todo) : j.todo[i] = CapturePasses[Done(j) + i]
  /\ j.at = "environment" => j.todo = CapturePasses
  /\ j.at = "report" <=> j.todo = << >>
  /\ j.at # "environment" /\ j.todo # << >> => (j.at = "plots" <=> Head(j.todo).kind = "plots")

OnSchedule == \A p \in Procs : job[p].mode = "capture" /\ job[p].at # "idle" => Schedule(job[p])

-----------------------------------------------------------------------------
\* The records the runner makes of a job.
LEMMA StartedFields ==
  ASSUME NEW run, NEW mode, NEW dir, NEW todo, NEW at
  PROVE  LET j == Started(run, mode, dir, todo, at)
         IN  /\ IsJob(j)
             /\ j.mode = mode /\ j.run = run /\ j.dir = dir /\ j.todo = todo /\ j.at = at
             /\ ~j.failed /\ j.out = NONE /\ j.ok /\ j.result = NONE
  BY ZenonT(60) DEF Started, NoJob, IsJob, JobFields

\* Entering a pass keeps the invocation and sets the pass list and its first
\* step.
LEMMA EnterPassFields ==
  ASSUME NEW j, IsJob(j), NEW todo
  PROVE  LET e == EnterPass(j, todo)
         IN  /\ IsJob(e)
             /\ e.mode = j.mode /\ e.run = j.run /\ e.dir = j.dir /\ e.failed = j.failed
             /\ e.result = j.result /\ e.todo = todo /\ e.at = Entry(todo) /\ e.out = NONE /\ e.ok
  BY Zenon DEF EnterPass, IsJob, JobFields

\* Stopping keeps the invocation and its directory.
LEMMA StoppedFields ==
  ASSUME NEW j, NEW result
  PROVE  LET e == Stopped(j, result)
         IN  /\ IsJob(e)
             /\ e.mode = j.mode /\ e.run = j.run /\ e.dir = j.dir /\ e.out = NONE
             /\ e.at = "idle" /\ e.result = result
  BY ZenonT(60) DEF Stopped, NoJob, IsJob, JobFields

\* The step a pass list begins at tells the kind of its first pass.
LEMMA EntryIs ==
  ASSUME NEW todo
  PROVE  /\ Entry(todo) \in {"report", "run", "plots", "build"}
         /\ Entry(todo) = "run" => Head(todo).kind = "cache"
         /\ Entry(todo) = "report" <=> todo = << >>
         /\ todo # << >> => (Entry(todo) = "plots" <=> Head(todo).kind = "plots")
  BY Zenon DEF Entry

\* After a pass an intent run stops if it failed; otherwise the next pass is
\* entered.
LEMMA PassDoneFields ==
  ASSUME NEW j, IsJob(j), NEW ok \in BOOLEAN
  PROVE  LET e == PassDone(j, ok)
         IN  /\ IsJob(e)
             /\ e.mode = j.mode /\ e.run = j.run /\ e.dir = j.dir
             /\ \/ /\ j.mode = "bench" /\ e.at = "idle" /\ e.result = "failed" /\ e.out = NONE
                \/ /\ e.todo = Tail(j.todo) /\ e.at = Entry(e.todo) /\ e.failed = Failure(j, ok)
                   /\ e.out = NONE /\ e.ok /\ e.result = j.result
<1>1. CASE j.mode = "bench" /\ ~ok
  BY <1>1, StoppedFields DEF PassDone
<1>2. CASE ~(j.mode = "bench" /\ ~ok)
  BY <1>2, ZenonT(60) DEF PassDone, EnterPass, IsJob, JobFields
<1> QED
  BY <1>1, <1>2, Zenon

\* A step inside a pass changes where the job stands and what it has seen.
Kept(e, j) ==
  /\ IsJob(e)
  /\ e.mode = j.mode /\ e.run = j.run /\ e.dir = j.dir /\ e.todo = j.todo
  /\ e.failed = j.failed /\ e.result = j.result

OthersKept(p) ==
  /\ job' = [q \in Procs |-> job'[q]]
  /\ \A q \in Procs \ {p} : job'[q] = job[q]

\* Moving on to a step changes nothing else of the job.
LEMMA GotoFields ==
  ASSUME JobsPlaced, NEW p \in Procs, NEW at, Goto(p, at)
  PROVE  /\ OthersKept(p) /\ Kept(job'[p], job[p]) /\ job'[p].at = at
         /\ job'[p].built = job[p].built /\ job'[p].out = job[p].out /\ job'[p].ok = job[p].ok
         /\ job'[p].cleared = job[p].cleared
<1>1. job = [q \in Procs |-> job[q]] /\ IsJob(job[p])
  BY Zenon DEF JobsPlaced, Placed
<1>2. job'[p] = [job[p] EXCEPT !.at = at] /\ OthersKept(p)
  BY <1>1, Zenon DEF Goto, OthersKept
<1> QED
  BY <1>1, <1>2, Zenon DEF IsJob, JobFields, Kept

\* A job that is replaced leaves the other processes' alone.
LEMMA SetFields ==
  ASSUME JobsPlaced, NEW p \in Procs, NEW e, job' = [job EXCEPT ![p] = e]
  PROVE  OthersKept(p) /\ job'[p] = e
  BY Zenon DEF JobsPlaced, OthersKept

\* A build fixes the tree and leads to the first write of its kind of pass.
LEMMA BuildFields ==
  ASSUME JobsPlaced, NEW p \in Procs, Build(p)
  PROVE  /\ OthersKept(p) /\ Kept(job'[p], job[p])
         /\ job'[p].built = tree /\ job'[p].out = job[p].out /\ job'[p].ok = job[p].ok
         /\ \/ job'[p].at = "md" /\ Head(job[p].todo).kind \in WritesReport
            \/ job'[p].at = "raw" /\ Head(job[p].todo).kind \in {"cross_core", "alloc"}
            \/ job'[p].at = "run" /\ Head(job[p].todo).kind \notin WritesReport \union {"cross_core", "alloc"}
<1>1. job = [q \in Procs |-> job[q]] /\ IsJob(job[p])
  BY Zenon DEF JobsPlaced, Placed
<1> DEFINE at == CASE Now(p).kind \in {"latency", "perfstat"} -> "md"
                   [] Now(p).kind \in {"cross_core", "alloc"} -> "raw"
                   [] OTHER                                   -> "run"
<1>2. job' = [job EXCEPT ![p].built = tree, ![p].at = at]
  BY Zenon DEF Build
<1>3. \/ at = "md" /\ Head(job[p].todo).kind \in WritesReport
      \/ at = "raw" /\ Head(job[p].todo).kind \in {"cross_core", "alloc"}
      \/ at = "run" /\ Head(job[p].todo).kind \notin WritesReport \union {"cross_core", "alloc"}
  BY Zenon DEF Now, WritesReport
<1> HIDE DEF at
<1>4. OthersKept(p) /\ job'[p] = [job[p] EXCEPT !.built = tree, !.at = at]
  BY <1>1, <1>2, Zenon DEF OthersKept
<1>5. /\ Kept(job'[p], job[p]) /\ job'[p].at = at
      /\ job'[p].built = tree /\ job'[p].out = job[p].out /\ job'[p].ok = job[p].ok
  BY <1>1, <1>4, Zenon DEF IsJob, JobFields, Kept
<1> QED
  BY <1>3, <1>4, <1>5, Zenon

\* The first write of a bench fixes the directory it writes to.
LEMMA OutFields ==
  ASSUME JobsPlaced, NEW p \in Procs, NEW out, WriteMd(p) \/ WriteRaw(p), out = out_dir(p)
  PROVE  /\ OthersKept(p) /\ Kept(job'[p], job[p])
         /\ job'[p].at = IF job[p].at = "md" THEN "csv" ELSE "run"
         /\ job'[p].out = out /\ job'[p].built = job[p].built /\ job'[p].ok = job[p].ok
<1>1. job = [q \in Procs |-> job[q]] /\ IsJob(job[p])
  BY Zenon DEF JobsPlaced, Placed
<1>2. PICK at : /\ at = IF job[p].at = "md" THEN "csv" ELSE "run"
                /\ job' = [job EXCEPT ![p].at = at, ![p].out = out]
  <2>1. CASE WriteMd(p)
    BY <2>1, Zenon DEF WriteMd
  <2>2. CASE WriteRaw(p)
    BY <2>2, Zenon DEF WriteRaw
  <2> QED
    BY <2>1, <2>2, Zenon
<1>3. job' = [job EXCEPT ![p].at = at, ![p].out = out]
  BY <1>2, Zenon
<1>4. OthersKept(p) /\ job'[p] = [job[p] EXCEPT !.at = at, !.out = out]
  BY <1>1, <1>3, Zenon DEF OthersKept
<1>5. /\ Kept(job'[p], job[p])
      /\ job'[p].at = at /\ job'[p].out = out /\ job'[p].built = job[p].built /\ job'[p].ok = job[p].ok
  BY <1>1, <1>4, Zenon DEF IsJob, JobFields, Kept
<1> QED
  BY <1>2, <1>4, <1>5, Zenon

\* Removing the curves records only whether it succeeded.
LEMMA ClearFields ==
  ASSUME JobsPlaced, NEW p \in Procs, NEW at, NEW b, job' = [job EXCEPT ![p].at = at, ![p].cleared = b]
  PROVE  /\ OthersKept(p) /\ Kept(job'[p], job[p])
         /\ job'[p].at = at /\ job'[p].cleared = b
         /\ job'[p].built = job[p].built /\ job'[p].out = job[p].out /\ job'[p].ok = job[p].ok
<1>1. job = [q \in Procs |-> job[q]] /\ IsJob(job[p])
  BY Zenon DEF JobsPlaced, Placed
<1>2. OthersKept(p) /\ job'[p] = [job[p] EXCEPT !.at = at, !.cleared = b]
  BY <1>1, Zenon DEF OthersKept
<1> QED
  BY <1>1, <1>2, Zenon DEF IsJob, JobFields, Kept

\* A child that fails keeps the directory and the tree it had.
LEMMA FailFields ==
  ASSUME NEW j, IsJob(j)
  PROVE  LET e == [j EXCEPT !.at = "run", !.ok = FALSE]
         IN  /\ Kept(e, j) /\ e.at = "run" /\ ~e.ok /\ e.out = j.out /\ e.built = j.built
  BY Zenon DEF IsJob, JobFields, Kept
-----------------------------------------------------------------------------
\* The initial state is placed.
LEMMA InitPlaced == Init => JobsPlaced
<1> SUFFICES ASSUME Init, NEW p \in Procs PROVE tree \in Trees /\ Placed(p, NoJob)
  BY Zenon DEF Init, JobsPlaced
<1>1. IsJob(NoJob) /\ NoJob.at = "idle" /\ NoJob.mode = NONE /\ NoJob.dir = NONE /\ NoJob.out = NONE
  BY Zenon DEF NoJob, IsJob, JobFields
<1> QED
  BY <1>1, CaptureAssumption, Zenon DEF Init, Placed, AfterMd

\* The files stay where they can be, and the tree one of the known ones.
LEMMA ShapeKept ==
  ASSUME JobsPlaced, [Next]_vars
  PROVE  tree' \in Trees /\ fs' = [d \in Dirs |-> fs'[d]]
<1>1. tree \in Trees /\ fs = [d \in Dirs |-> fs[d]]
  BY Zenon DEF JobsPlaced
<1>2. ASSUME NEW d, NEW D, fs' = [fs EXCEPT ![d] = D] PROVE fs' = [x \in Dirs |-> fs'[x]]
  BY <1>1, <1>2, Zenon
<1>3. CASE UNCHANGED vars
  BY <1>1, <1>3, Zenon DEF vars
<1>4. CASE EditTree
  BY <1>1, <1>4, Zenon DEF EditTree
<1>5. ASSUME NEW p \in Procs, Refuse(p) \/ StartBench(p) \/ Build(p) \/ Report(p)
      PROVE  tree' = tree /\ fs' = fs
  BY <1>5, Zenon DEF Refuse, StartBench, Build, Report
<1>6. ASSUME NEW p \in Procs, StartCapture(p)
      PROVE  tree' = tree /\ (fs' = fs \/ \E d, D : fs' = [fs EXCEPT ![d] = D])
  BY <1>6, Zenon DEF StartCapture
<1>7. ASSUME NEW p \in Procs, WriteEnvironment(p)
      PROVE  tree' = tree /\ (fs' = fs \/ \E d, D : fs' = [fs EXCEPT ![d] = D])
  BY <1>7, Zenon DEF WriteEnvironment, Put
<1>8. ASSUME NEW p \in Procs,
             WriteMd(p) \/ WriteCsv(p) \/ WriteHdr(p) \/ WriteGnuplot(p) \/ WriteRaw(p)
      PROVE  tree' = tree /\ (fs' = fs \/ \E d, D : fs' = [fs EXCEPT ![d] = D])
  BY <1>8, Zenon DEF WriteMd, WriteCsv, WriteHdr, WriteGnuplot, WriteRaw, Put
<1>9. ASSUME NEW p \in Procs, ClearHdr(p)
      PROVE  tree' = tree /\ \E d, D : fs' = [fs EXCEPT ![d] = D]
  BY <1>9, Zenon DEF ClearHdr, Dropped
<1>10. ASSUME NEW p \in Procs, ChildFails(p)
       PROVE  tree' = tree /\ (fs' = fs \/ \E d, D : fs' = [fs EXCEPT ![d] = D])
  BY <1>10, Zenon DEF ChildFails, Put
<1>11. ASSUME NEW p \in Procs, EndPass(p)
       PROVE  tree' = tree /\ fs' = [x \in Dirs |-> fs'[x]]
  <2> DEFINE cleaned == [fs EXCEPT ![Temp(p)] = NoFiles]
  <2>1. cleaned = [x \in Dirs |-> cleaned[x]]
    BY <1>1, Zenon
  <2>2. tree' = tree /\ (fs' = cleaned \/ \E d, D : fs' = [cleaned EXCEPT ![d] = D])
    BY <1>11, Zenon DEF EndPass
  <2> HIDE DEF cleaned
  <2> QED
    BY <2>1, <2>2, Zenon
<1>12. ASSUME NEW p \in Procs, RenderPlots(p)
       PROVE  tree' = tree /\ \E d, D : fs' = [fs EXCEPT ![d] = D]
  BY <1>12, Zenon DEF RenderPlots
<1>13. ASSUME NEW p \in Procs, Interrupt(p)
       PROVE  tree' = tree /\ \E d, D : fs' = [fs EXCEPT ![d] = D]
  BY <1>13, Zenon DEF Interrupt
<1> QED
  BY <1>1, <1>2, <1>3, <1>4, <1>5, <1>6, <1>7, <1>8, <1>9, <1>10, <1>11, <1>12, <1>13, Zenon DEF Next

\* out_dir gives perfstat its temporary directory, a capture its own and an
\* intent run the scratch directory of the tree's id.
LEMMA OutDirIs ==
  ASSUME JobsPlaced, NEW p \in Procs
  PROVE  /\ out_dir(p) \in Dirs
         /\ Now(p).kind = "perfstat" => out_dir(p) = Temp(p)
         /\ Now(p).kind # "perfstat" =>
              IF job[p].mode = "capture" THEN out_dir(p) = job[p].dir
              ELSE out_dir(p) = Scratch(run_id(tree)) /\ run_id(tree) \in RunIds
<1>1. /\ Temp(p) \in Dirs /\ run_id(tree) \in RunIds /\ Scratch(run_id(tree)) \in Dirs
      /\ job[p].mode = "capture" => job[p].dir \in Dirs
  BY Zenon DEF JobsPlaced, Placed, Dirs, RunIds
<1>2. NONE \notin Dirs
  BY CaptureAssumption, Zenon
<1> QED
  BY <1>1, <1>2, Zenon DEF out_dir, BENCH_OUT_DIR

\* Every step leaves every job's directories and pass in order.
LEMMA NextPlaced == JobsPlaced /\ [Next]_vars => JobsPlaced'
<1> SUFFICES ASSUME JobsPlaced, [Next]_vars PROVE JobsPlaced'
  BY Zenon
<1>0. /\ tree' \in Trees /\ fs' = [d \in Dirs |-> fs'[d]]
      /\ job = [p \in Procs |-> job[p]] /\ \A p \in Procs : Placed(p, job[p]) /\ IsJob(job[p])
  BY ShapeKept, Zenon DEF JobsPlaced, Placed
<1>a. ASSUME job' = job PROVE JobsPlaced'
  BY <1>0, <1>a, Zenon DEF JobsPlaced
<1>b. ASSUME NEW p \in Procs, OthersKept(p), Placed(p, job'[p]) PROVE JobsPlaced'
  BY <1>0, <1>b, Zenon DEF JobsPlaced, OthersKept
\* A job between two passes, or at the end, is in order if its directory is.
<1>c. ASSUME NEW p \in Procs, NEW j, IsJob(j), j.dir = job[p].dir, j.mode = job[p].mode,
             j.out = NONE \/ j.out = job[p].out,
             j.at \in {"idle", "report", "plots", "build"} \/ (j.at = "run" /\ Head(j.todo).kind = "cache")
      PROVE  Placed(p, j)
  BY <1>0, <1>c, Zenon DEF Placed, AfterMd, WritesReport
<1>1. CASE UNCHANGED vars
  BY <1>a, <1>1, Zenon DEF vars
<1>2. CASE EditTree
  BY <1>a, <1>2, Zenon DEF EditTree
<1>3. ASSUME NEW p \in Procs, Refuse(p) PROVE JobsPlaced'
  <2> DEFINE j == Stopped(Started(runs + 1, "refused", NONE, << >>, "idle"), "refused")
  <2>1. IsJob(j) /\ j.mode = "refused" /\ j.dir = NONE /\ j.out = NONE /\ j.at = "idle"
    BY StartedFields, StoppedFields
  <2>2. Placed(p, j)
    <3> HIDE DEF j
    <3> QED
      BY <2>1, Zenon DEF Placed, AfterMd
  <2> QED
    BY <1>3, <1>b, <2>2, SetFields, Zenon DEF Refuse
<1>4. ASSUME NEW p \in Procs, StartBench(p) PROVE JobsPlaced'
  <2>1. PICK req \in Requests :
          job' = [job EXCEPT ![p] = EnterPass(Started(runs + 1, "bench", NONE, << >>, NONE), BenchPasses(req))]
    BY <1>4, Zenon DEF StartBench
  <2> DEFINE j == EnterPass(Started(runs + 1, "bench", NONE, << >>, NONE), BenchPasses(req))
  <2>2. IsJob(j) /\ j.mode = "bench" /\ j.dir = NONE /\ j.out = NONE /\ j.at = Entry(j.todo)
    BY StartedFields, EnterPassFields
  <2>3. Placed(p, j)
    <3> HIDE DEF j
    <3> QED
      BY <2>2, EntryIs, Zenon DEF Placed, AfterMd, WritesReport
  <2> QED
    BY <1>b, <2>1, <2>3, SetFields, Zenon
<1>5. ASSUME NEW p \in Procs, StartCapture(p) PROVE JobsPlaced'
  <2> DEFINE d == Published(run_id(tree))
             started == Started(runs + 1, "capture", d, CapturePasses, "environment")
             failed  == Stopped(Started(runs + 1, "capture", d, << >>, "idle"), "failed")
  <2>1. d \in {Published(id) : id \in RunIds} /\ d # NONE
    BY CaptureAssumption, Zenon DEF JobsPlaced, RunIds, Dirs
  <2>2. /\ IsJob(started) /\ started.mode = "capture" /\ started.dir = d /\ started.out = NONE /\ started.at = "environment"
        /\ IsJob(failed) /\ failed.dir = d /\ failed.out = NONE /\ failed.at = "idle"
    BY StartedFields, StoppedFields
  <2>3. job' = [job EXCEPT ![p] = started] \/ job' = [job EXCEPT ![p] = failed]
    BY <1>5, Zenon DEF StartCapture
  <2>4. Placed(p, started) /\ Placed(p, failed)
    <3> HIDE DEF d, started, failed
    <3> QED
      BY <2>1, <2>2, Zenon DEF Placed, AfterMd
  <2> QED
    BY <1>b, <2>3, <2>4, SetFields, Zenon
<1>6. ASSUME NEW p \in Procs, WriteEnvironment(p) PROVE JobsPlaced'
  <2>1. PICK j : job' = [job EXCEPT ![p] = j] /\
                 (j = EnterPass(job[p], job[p].todo) \/ j = Stopped(job[p], "failed"))
    BY <1>6, Zenon DEF WriteEnvironment
  <2>2. /\ IsJob(j) /\ j.dir = job[p].dir /\ j.mode = job[p].mode /\ (j.out = NONE \/ j.out = job[p].out)
        /\ j.at = "idle" \/ j.at = Entry(j.todo)
    BY <1>0, <2>1, EnterPassFields, StoppedFields
  <2>3. j.at \in {"idle", "report", "plots", "build"} \/ (j.at = "run" /\ Head(j.todo).kind = "cache")
    BY <2>2, EntryIs, Zenon
  <2>4. Placed(p, j)
    BY <1>c, <2>2, <2>3, Zenon
  <2> QED
    BY <1>b, <2>1, <2>4, SetFields, ZenonT(60)
<1>7. ASSUME NEW p \in Procs, Build(p) PROVE JobsPlaced'
  <2>1. tree \in Trees /\ Placed(p, job[p])
    BY <1>0, Zenon DEF JobsPlaced
  <2> QED
    BY <1>7, <1>b, <2>1, BuildFields DEF Placed, Kept, AfterMd, WritesReport
<1>8. ASSUME NEW p \in Procs, WriteMd(p) PROVE JobsPlaced'
  <2>2. Placed(p, job[p]) /\ job[p].at = "md"
    BY <1>0, <1>8, Zenon DEF WriteMd
  <2>0. PICK d : d = out_dir(p)
    BY Zenon
  <2>1. /\ OthersKept(p) /\ Kept(job'[p], job[p]) /\ job'[p].at = "csv" /\ job'[p].out = d
        /\ job'[p].built = job[p].built
    BY <1>8, <2>0, <2>2, OutFields, Zenon
  <2> QED
    BY <1>b, <2>0, <2>1, <2>2, OutDirIs DEF Placed, Kept, AfterMd, WritesReport, Now
<1>9. ASSUME NEW p \in Procs, WriteCsv(p) \/ WriteHdr(p) \/ WriteGnuplot(p) PROVE JobsPlaced'
  <2>1. PICK at \in {"clear_hdr", "gnuplot", "run"} : job[p].at \in AfterMd /\ Goto(p, at)
    BY <1>9, Zenon DEF WriteCsv, WriteHdr, WriteGnuplot, AfterMd
  <2>2. /\ OthersKept(p) /\ Kept(job'[p], job[p]) /\ job'[p].at = at
        /\ job'[p].built = job[p].built /\ job'[p].out = job[p].out
    BY <2>1, GotoFields, Zenon
  <2>3. Placed(p, job[p])
    BY <1>0, Zenon
  <2> QED
    BY <1>b, <2>1, <2>2, <2>3, Zenon DEF Placed, Kept, AfterMd, WritesReport
<1>10. ASSUME NEW p \in Procs, ClearHdr(p) PROVE JobsPlaced'
  <2>1. PICK b : job[p].at = "clear_hdr" /\ job' = [job EXCEPT ![p].at = "hdr", ![p].cleared = b]
    BY <1>10, Zenon DEF ClearHdr
  <2>2. /\ OthersKept(p) /\ Kept(job'[p], job[p]) /\ job'[p].at = "hdr"
        /\ job'[p].built = job[p].built /\ job'[p].out = job[p].out
    BY <2>1, ClearFields, Zenon
  <2>3. Placed(p, job[p])
    BY <1>0, Zenon
  <2> QED
    BY <1>b, <2>1, <2>2, <2>3, Zenon DEF Placed, Kept, AfterMd, WritesReport
<1>11. ASSUME NEW p \in Procs, WriteRaw(p) PROVE JobsPlaced'
  <2>2. Placed(p, job[p]) /\ job[p].at = "raw"
    BY <1>0, <1>11, Zenon DEF WriteRaw
  <2>0. PICK d : d = out_dir(p)
    BY Zenon
  <2>1. /\ OthersKept(p) /\ Kept(job'[p], job[p]) /\ job'[p].at = "run" /\ job'[p].out = d
    BY <1>11, <2>0, <2>2, OutFields, Zenon
  <2> QED
    BY <1>b, <2>0, <2>1, <2>2, OutDirIs, Zenon DEF Placed, Kept, AfterMd, WritesReport
<1>12. ASSUME NEW p \in Procs, ChildFails(p) PROVE JobsPlaced'
  <2>1. CASE job[p].at = "build"
    <3>1. PICK ok \in BOOLEAN : job' = [job EXCEPT ![p] = PassDone(job[p], ok)]
      BY <1>12, <2>1, Zenon DEF ChildFails
    <3>2. OthersKept(p) /\ job'[p] = PassDone(job[p], ok)
      BY <3>1, SetFields, Zenon
    <3>3. Placed(p, job'[p])
      BY <1>0, <1>c, <3>2, PassDoneFields, EntryIs
    <3> QED
      BY <1>b, <3>2, <3>3, Zenon
  <2>2. CASE job[p].at # "build"
    <3> DEFINE e == [job[p] EXCEPT !.at = "run", !.ok = FALSE]
    <3>1. job' = [job EXCEPT ![p] = e]
      BY <1>12, <2>2, Zenon DEF ChildFails
    <3>2. Kept(e, job[p]) /\ e.at = "run" /\ ~e.ok /\ e.out = job[p].out
      BY <1>0, FailFields, Zenon
    <3> HIDE DEF e
    <3>3. Placed(p, e)
      BY <1>0, <3>2, Zenon DEF Placed, Kept, AfterMd
    <3> QED
      BY <1>b, <3>1, <3>3, SetFields, Zenon
  <2> QED
    BY <2>1, <2>2, Zenon
<1>13. ASSUME NEW p \in Procs, EndPass(p) \/ RenderPlots(p) PROVE JobsPlaced'
  <2>1. \E ok \in BOOLEAN : job' = [job EXCEPT ![p] = PassDone(job[p], ok)]
    <3>1. CASE EndPass(p)
      <4>1. \/ job' = [job EXCEPT ![p] = PassDone(job[p], job[p].ok)]
            \/ job' = [job EXCEPT ![p] = PassDone(job[p], FALSE)]
        BY <3>1, Zenon DEF EndPass
      <4>2. PassDone(job[p], job[p].ok) \in {PassDone(job[p], TRUE), PassDone(job[p], FALSE)}
        BY Zenon DEF PassDone, Failure
      <4> QED
        BY <4>1, <4>2, Zenon
    <3>2. CASE RenderPlots(p)
      BY <3>2, Zenon DEF RenderPlots
    <3> QED
      BY <1>13, <3>1, <3>2, Zenon
  <2>2. PICK ok \in BOOLEAN : job' = [job EXCEPT ![p] = PassDone(job[p], ok)]
    BY <2>1, Zenon
  <2>3. OthersKept(p) /\ job'[p] = PassDone(job[p], ok)
    BY <2>2, SetFields, Zenon
  <2> QED
    BY <1>0, <1>b, <1>c, <2>3, PassDoneFields, EntryIs
<1>14. ASSUME NEW p \in Procs, Report(p) \/ Interrupt(p) PROVE JobsPlaced'
  <2>1. PICK result : job' = [job EXCEPT ![p] = Stopped(job[p], result)]
    BY <1>14, Zenon DEF Report, Interrupt
  <2> QED
    BY <1>0, <1>b, <1>c, <2>1, SetFields, StoppedFields
<1> QED
  BY <1>1, <1>2, <1>3, <1>4, <1>5, <1>6, <1>7, <1>8, <1>9, <1>10, <1>11, <1>12, <1>13, <1>14, Zenon DEF Next
-----------------------------------------------------------------------------
\* Two sequences one after the other, and a crate list turned into passes.
LEMMA Joined ==
  ASSUME NEW S, NEW s \in Seq(S), NEW t \in Seq(S)
  PROVE  /\ s \o t \in Seq(S) /\ Len(s \o t) = Len(s) + Len(t)
         /\ \A i \in 1 .. Len(s) : (s \o t)[i] = s[i]
         /\ \A i \in Len(s) + 1 .. Len(s) + Len(t) : (s \o t)[i] = t[i - Len(s)]
  OBVIOUS

PassesOf(kind, s) == [i \in DOMAIN s |-> Pass(kind, s[i])]

\* A list of crates mapped to passes of one kind.
LEMMA Mapped ==
  ASSUME NEW s, s \in Seq(Range(s)), NEW K, NEW kind \in K, NEW C, Range(s) \subseteq C
  PROVE  /\ PassesOf(kind, s) \in Seq([kind : K, crate : C]) /\ Len(PassesOf(kind, s)) = Len(s)
         /\ \A i \in 1 .. Len(s) : PassesOf(kind, s)[i] = Pass(kind, s[i])
<1> DEFINE t == [i \in DOMAIN s |-> Pass(kind, s[i])]
<1>1. DOMAIN s = 1 .. Len(s) /\ Len(s) \in Nat /\ \A i \in 1 .. Len(s) : s[i] \in C
  BY DEF Range
<1>2. t = [i \in 1 .. Len(s) |-> Pass(kind, s[i])]
  BY <1>1, Zenon
<1>3. \A i \in 1 .. Len(s) : Pass(kind, s[i]) \in [kind : K, crate : C]
  BY <1>1, Zenon DEF Pass
<1>4. t \in [1 .. Len(s) -> [kind : K, crate : C]]
  BY <1>2, <1>3, Zenon
<1>5. t \in Seq([kind : K, crate : C])
  BY <1>1, <1>4
<1>6. Len(t) = Len(s)
  BY <1>1, <1>2, <1>5
<1> QED
  BY <1>2, <1>5, <1>6, Zenon DEF PassesOf

Kinds == {"latency", "cross_core", "cache", "alloc", "perfstat", "plots"}

\* What CapturePasses is: the crates' latency passes, each once, the other
\* passes, and the plots last.
LEMMA CapturePassesAre ==
  /\ CapturePasses \in Seq(Range(CapturePasses)) /\ Len(CapturePasses) \in Nat \ {0}
  /\ \A i \in 1 .. Len(CapturePasses) :
       /\ CapturePasses[i] = Pass(CapturePasses[i].kind, CapturePasses[i].crate)
       /\ CapturePasses[i].kind \in Kinds
       /\ CapturePasses[i].kind = "plots" <=> i = Len(CapturePasses)
  /\ \A c \in Range(BENCH_CRATES) : \E i \in 1 .. Len(CapturePasses) : CapturePasses[i] = Pass("latency", c)
  /\ \A c \in Range(ALLOC_CRATES) : \E i \in 1 .. Len(CapturePasses) : CapturePasses[i] = Pass("alloc", c)
  /\ \E i \in 1 .. Len(CapturePasses) : CapturePasses[i] = Pass("cross_core", "ipc")
  /\ \A i, k \in 1 .. Len(CapturePasses) :
       /\ CapturePasses[i].kind = "latency" /\ CapturePasses[k].kind = "latency"
       /\ CapturePasses[i].crate = CapturePasses[k].crate
       => i = k
<1> DEFINE L == PassesOf("latency", BENCH_CRATES)
           X == <<Pass("cross_core", "ipc"), Pass("cache", "matcher")>>
           A == PassesOf("alloc", ALLOC_CRATES)
           P == PassesOf("perfstat", PERF_CRATES)
           Z == <<Pass("plots", NONE)>>
           C == Range(BENCH_CRATES) \union Range(ALLOC_CRATES) \union Range(PERF_CRATES)
                \union {"ipc", "matcher", NONE}
           S == [kind : Kinds, crate : C]
<1>1. /\ BENCH_CRATES \in Seq(Range(BENCH_CRATES)) /\ ALLOC_CRATES \in Seq(Range(ALLOC_CRATES))
      /\ PERF_CRATES \in Seq(Range(PERF_CRATES))
  BY CaptureAssumption, Zenon
<1>c. DOMAIN BENCH_CRATES = 1 .. Len(BENCH_CRATES) /\ DOMAIN ALLOC_CRATES = 1 .. Len(ALLOC_CRATES)
  BY <1>1
<1>a. {"latency", "alloc", "perfstat"} \subseteq Kinds
  BY Zenon DEF Kinds
<1>b. Range(BENCH_CRATES) \subseteq C /\ Range(ALLOC_CRATES) \subseteq C /\ Range(PERF_CRATES) \subseteq C
  BY Zenon
<1>5. X \in Seq(S) /\ Len(X) = 2 /\ X[1] = Pass("cross_core", "ipc") /\ X[2] = Pass("cache", "matcher")
  BY DEF Pass, Kinds
<1>6. Z \in Seq(S) /\ Len(Z) = 1 /\ Z[1] = Pass("plots", NONE)
  BY DEF Pass, Kinds
<1> HIDE DEF C
<1>d. "latency" \in Kinds /\ "alloc" \in Kinds /\ "perfstat" \in Kinds
  BY <1>a, Zenon
<1>2. L \in Seq(S) /\ Len(L) = Len(BENCH_CRATES) /\ \A i \in 1 .. Len(L) : L[i] = Pass("latency", BENCH_CRATES[i])
  <2>1. /\ L \in Seq(S) /\ Len(L) = Len(BENCH_CRATES)
        /\ \A i \in 1 .. Len(BENCH_CRATES) : L[i] = Pass("latency", BENCH_CRATES[i])
    BY <1>1, <1>d, <1>b, Mapped, Zenon
  <2> QED
    BY <2>1, Zenon
<1>3. A \in Seq(S) /\ Len(A) = Len(ALLOC_CRATES) /\ \A i \in 1 .. Len(A) : A[i] = Pass("alloc", ALLOC_CRATES[i])
  <2>1. /\ A \in Seq(S) /\ Len(A) = Len(ALLOC_CRATES)
        /\ \A i \in 1 .. Len(ALLOC_CRATES) : A[i] = Pass("alloc", ALLOC_CRATES[i])
    BY <1>1, <1>d, <1>b, Mapped, Zenon
  <2> QED
    BY <2>1, Zenon
<1>4. P \in Seq(S) /\ Len(P) = Len(PERF_CRATES) /\ \A i \in 1 .. Len(P) : P[i] = Pass("perfstat", PERF_CRATES[i])
  <2>1. /\ P \in Seq(S) /\ Len(P) = Len(PERF_CRATES)
        /\ \A i \in 1 .. Len(PERF_CRATES) : P[i] = Pass("perfstat", PERF_CRATES[i])
    BY <1>1, <1>d, <1>b, Mapped, Zenon
  <2> QED
    BY <2>1, Zenon
<1> DEFINE LX == L \o X
           LXA == LX \o A
           LXAP == LXA \o P
<1>7. CapturePasses = LXAP \o Z
  BY Zenon DEF CapturePasses, PassesOf
<1> HIDE DEF L, X, A, P, Z, S
<1> DEFINE a == Len(L)
           b == Len(L) + 2
           c == Len(L) + 2 + Len(A)
           n == Len(L) + 2 + Len(A) + Len(P)
<1>9. /\ a \in Nat /\ b = a + 2 /\ c \in Nat /\ b <= c /\ n \in Nat /\ c <= n /\ b \in Nat
      /\ a = Len(L) /\ c = b + Len(A) /\ n = c + Len(P)
      /\ Len(L) \in Nat /\ Len(A) \in Nat /\ Len(P) \in Nat
      /\ a = Len(BENCH_CRATES) /\ Len(A) = Len(ALLOC_CRATES)
  BY <1>1, <1>2, <1>3, <1>4
<1> HIDE DEF a, b, c, n
<1>8. /\ CapturePasses \in Seq(S) /\ Len(CapturePasses) = n + 1
      /\ \A i \in 1 .. a : CapturePasses[i] = Pass("latency", BENCH_CRATES[i])
      /\ CapturePasses[a + 1] = Pass("cross_core", "ipc") /\ CapturePasses[a + 2] = Pass("cache", "matcher")
      /\ \A i \in b + 1 .. c : CapturePasses[i] = Pass("alloc", ALLOC_CRATES[i - b])
      /\ \A i \in c + 1 .. n : CapturePasses[i] = Pass("perfstat", PERF_CRATES[i - c])
      /\ CapturePasses[n + 1] = Pass("plots", NONE)
  <2>b. L \in Seq(S) /\ X \in Seq(S) /\ A \in Seq(S) /\ P \in Seq(S) /\ Z \in Seq(S)
    BY <1>2, <1>3, <1>4, <1>5, <1>6, Zenon
  <2>c. LX \in Seq(S) /\ LXA \in Seq(S) /\ LXAP \in Seq(S)
    BY <2>b, Joined, Zenon
  <2>1. /\ Len(LX) = Len(L) + Len(X)
        /\ \A i \in 1 .. Len(L) : LX[i] = L[i]
        /\ \A i \in Len(L) + 1 .. Len(L) + Len(X) : LX[i] = X[i - Len(L)]
    BY <2>b, Joined, Zenon
  <2> HIDE DEF LX
  <2>2. /\ Len(LXA) = Len(LX) + Len(A)
        /\ \A i \in 1 .. Len(LX) : LXA[i] = LX[i]
        /\ \A i \in Len(LX) + 1 .. Len(LX) + Len(A) : LXA[i] = A[i - Len(LX)]
    BY <2>b, <2>c, Joined, ZenonT(60)
  <2> HIDE DEF LXA
  <2>3. /\ Len(LXAP) = Len(LXA) + Len(P)
        /\ \A i \in 1 .. Len(LXA) : LXAP[i] = LXA[i]
        /\ \A i \in Len(LXA) + 1 .. Len(LXA) + Len(P) : LXAP[i] = P[i - Len(LXA)]
    BY <2>b, <2>c, Joined, ZenonT(60)
  <2> HIDE DEF LXAP
  <2>4. /\ CapturePasses \in Seq(S) /\ Len(CapturePasses) = Len(LXAP) + Len(Z)
        /\ \A i \in 1 .. Len(LXAP) : CapturePasses[i] = LXAP[i]
        /\ \A i \in Len(LXAP) + 1 .. Len(LXAP) + Len(Z) : CapturePasses[i] = Z[i - Len(LXAP)]
    BY <1>7, <2>b, <2>c, Joined, ZenonT(60)
  <2>a. /\ Len(LX) = b /\ Len(LXA) = c /\ Len(LXAP) = n
        /\ Len(CapturePasses) = n + 1 /\ CapturePasses[n + 1] = Z[1]
    <3>1. Len(LX) = b /\ Len(LXA) = c /\ Len(LXAP) = n
      BY <1>5, <1>9, <2>1, <2>2, <2>3, ZenonT(60)
    <3>2. n + 1 \in n + 1 .. n + 1 /\ (n + 1) - n = 1
      BY <1>9
    <3>3. n + 1 \in Len(LXAP) + 1 .. Len(LXAP) + Len(Z) /\ (n + 1) - Len(LXAP) = 1 /\ Len(Z) = 1
      BY <1>6, <3>1, <3>2, Zenon
    <3> QED
      BY <2>4, <3>1, <3>3, Zenon
  <2>d. \A i \in 1 .. b : CapturePasses[i] = LX[i]
    BY <1>9, <2>2, <2>3, <2>4, <2>a, SMTT(60)
  <2>5. \A i \in 1 .. a : CapturePasses[i] = L[i]
    <3>1. \A i \in 1 .. a : i \in 1 .. b
      BY <1>9
    <3> QED
      BY <1>9, <2>1, <2>d, <3>1, Zenon
  <2>6. CapturePasses[a + 1] = X[1] /\ CapturePasses[a + 2] = X[2]
    <3>1. \A i \in a + 1 .. a + 2 : CapturePasses[i] = X[i - a] /\ i \in 1 .. b
      BY <1>5, <1>9, <2>1, <2>d, SMTT(60)
    <3>2. a + 1 \in a + 1 .. a + 2 /\ a + 2 \in a + 1 .. a + 2 /\ (a + 1) - a = 1 /\ (a + 2) - a = 2
      BY <1>9
    <3> QED
      BY <3>1, <3>2, Zenon
  <2>7. \A i \in b + 1 .. c : CapturePasses[i] = A[i - b] /\ i - b \in 1 .. Len(A)
    <3> TAKE i \in b + 1 .. c
    <3>0. i \in Int /\ b + 1 <= i /\ i <= c /\ c = b + Len(A) /\ c <= n /\ b \in Nat /\ c \in Nat /\ n \in Nat
          /\ Len(A) \in Nat
      BY <1>9
    <3>2. i - b \in 1 .. Len(A) /\ i \in b + 1 .. b + Len(A) /\ i \in 1 .. n /\ i \in 1 .. c
      BY <3>0
    <3>1. i \in Len(LX) + 1 .. Len(LX) + Len(A) /\ i \in 1 .. Len(LXA) /\ i \in 1 .. Len(LXAP)
      BY <2>a, <3>2, Zenon
    <3> QED
      BY <2>2, <2>3, <2>4, <2>a, <3>1, <3>2, Zenon
  <2>8. \A i \in c + 1 .. n : CapturePasses[i] = P[i - c] /\ i - c \in 1 .. Len(P)
    <3> TAKE i \in c + 1 .. n
    <3>0. i \in Int /\ c + 1 <= i /\ i <= n /\ n = c + Len(P) /\ c \in Nat /\ n \in Nat /\ Len(P) \in Nat
      BY <1>9
    <3>2. i - c \in 1 .. Len(P) /\ i \in c + 1 .. c + Len(P) /\ i \in 1 .. n
      BY <3>0
    <3>1. i - c \in 1 .. Len(P) /\ i \in Len(LXA) + 1 .. Len(LXA) + Len(P) /\ i \in 1 .. Len(LXAP)
      BY <2>a, <3>2, Zenon
    <3> QED
      BY <2>3, <2>4, <2>a, <3>1, Zenon
  <2>e. \A i \in 1 .. a : CapturePasses[i] = Pass("latency", BENCH_CRATES[i])
    BY <1>2, <1>9, <2>5, Zenon
  <2>f. \A i \in b + 1 .. c : CapturePasses[i] = Pass("alloc", ALLOC_CRATES[i - b])
    BY <1>3, <2>7, Zenon
  <2>g. \A i \in c + 1 .. n : CapturePasses[i] = Pass("perfstat", PERF_CRATES[i - c])
    BY <1>4, <2>8, Zenon
  <2> QED
    BY <1>5, <1>6, <2>4, <2>6, <2>a, <2>e, <2>f, <2>g, Zenon
<1> HIDE DEF LX, LXA, LXAP
<1>10. ASSUME NEW i \in 1 .. n + 1
       PROVE  \/ i \in 1 .. a /\ CapturePasses[i] = Pass("latency", BENCH_CRATES[i])
              \/ i = a + 1 /\ CapturePasses[i] = Pass("cross_core", "ipc")
              \/ i = a + 2 /\ CapturePasses[i] = Pass("cache", "matcher")
              \/ i \in b + 1 .. c /\ CapturePasses[i] = Pass("alloc", ALLOC_CRATES[i - b])
              \/ i \in c + 1 .. n /\ CapturePasses[i] = Pass("perfstat", PERF_CRATES[i - c])
              \/ i = n + 1 /\ CapturePasses[i] = Pass("plots", NONE)
  <2>1. i \in 1 .. a \/ i = a + 1 \/ i = a + 2 \/ i \in b + 1 .. c \/ i \in c + 1 .. n \/ i = n + 1
    BY <1>9, SMTT(60)
  <2> QED
    BY <1>8, <2>1, Zenon
<1>11. ASSUME NEW k, NEW d PROVE Pass(k, d).kind = k /\ Pass(k, d).crate = d
  BY Zenon DEF Pass
<1>12. CapturePasses \in Seq(Range(CapturePasses))
  BY <1>8 DEF Range
<1>13. ASSUME NEW i \in 1 .. n + 1
       PROVE  /\ CapturePasses[i] = Pass(CapturePasses[i].kind, CapturePasses[i].crate)
              /\ CapturePasses[i].kind \in Kinds
              /\ CapturePasses[i].kind = "plots" <=> i = n + 1
              /\ CapturePasses[i].kind = "latency" => i \in 1 .. a /\ CapturePasses[i].crate = BENCH_CRATES[i]
  <2>1. CapturePasses[i] = Pass(CapturePasses[i].kind, CapturePasses[i].crate)
    BY <1>10, <1>11
  <2>2. /\ CapturePasses[i].kind \in Kinds
        /\ CapturePasses[i].kind = "latency" => i \in 1 .. a /\ CapturePasses[i].crate = BENCH_CRATES[i]
    BY <1>10, <1>11 DEF Kinds
  <2>3. CapturePasses[i].kind = "plots" <=> i = n + 1
    <3>1. /\ n + 1 \notin 1 .. a /\ n + 1 # a + 1 /\ n + 1 # a + 2
          /\ n + 1 \notin b + 1 .. c /\ n + 1 \notin c + 1 .. n
      BY <1>9, SMTT(60)
    <3> QED
      BY <1>10, <1>11, <3>1
  <2> QED
    BY <2>1, <2>2, <2>3, Zenon
<1>14. \A d \in Range(BENCH_CRATES) : \E i \in 1 .. n + 1 : CapturePasses[i] = Pass("latency", d)
  <2> SUFFICES ASSUME NEW i \in DOMAIN BENCH_CRATES
               PROVE  i \in 1 .. n + 1 /\ CapturePasses[i] = Pass("latency", BENCH_CRATES[i])
    BY Zenon DEF Range
  <2> QED
    BY <1>8, <1>9, <1>c, SMTT(60)
<1>15. ASSUME NEW d \in Range(ALLOC_CRATES) PROVE \E i \in 1 .. n + 1 : CapturePasses[i] = Pass("alloc", d)
  <2>1. PICK m \in 1 .. Len(ALLOC_CRATES) : d = ALLOC_CRATES[m]
    BY <1>c, Zenon DEF Range
  <2>2. b + m \in b + 1 .. c /\ (b + m) - b = m /\ b + m \in 1 .. n + 1
    BY <1>9, <2>1, SMTT(60)
  <2> QED
    BY <1>8, <2>1, <2>2, Zenon
<1>16. \E i \in 1 .. n + 1 : CapturePasses[i] = Pass("cross_core", "ipc")
  BY <1>8, <1>9, SMTT(60)
<1>17. \A i, k \in 1 .. a : BENCH_CRATES[i] = BENCH_CRATES[k] => i = k
  BY <1>9, <1>c, CaptureAssumption, Zenon DEF IsInjective
<1>18. Len(CapturePasses) = n + 1 /\ n + 1 \in Nat \ {0}
  BY <1>8, <1>9
<1> QED
  BY <1>12, <1>13, <1>14, <1>15, <1>16, <1>17, <1>18

\* The pass list of a capture ends with the plots, its only such pass.
LEMMA PlotsLast ==
  /\ Len(CapturePasses) \in Nat \ {0}
  /\ \A i \in 1 .. Len(CapturePasses) : CapturePasses[i].kind = "plots" <=> i = Len(CapturePasses)
  BY CapturePassesAre, Zenon

\* The pass a running capture is in, and the one it goes on to.
LEMMA ScheduleHead ==
  ASSUME NEW j, Schedule(j), j.at \notin {"environment", "report"}
  PROVE  /\ j.todo # << >> /\ Done(j) \in 0 .. Len(CapturePasses) - 1
         /\ Head(j.todo) = CapturePasses[Done(j) + 1]
         /\ Head(j.todo) = Pass(Head(j.todo).kind, Head(j.todo).crate) /\ Head(j.todo).kind \in Kinds
         /\ j.at = "plots" <=> Done(j) + 1 = Len(CapturePasses)
<1>1. j.todo # << >> /\ j.todo \in Seq(Range(CapturePasses)) /\ Len(j.todo) <= Len(CapturePasses)
  BY Zenon DEF Schedule
<1>2. Len(j.todo) \in Nat \ {0} /\ Len(CapturePasses) \in Nat
  BY <1>1, PlotsLast
<1>3. Done(j) \in 0 .. Len(CapturePasses) - 1 /\ 1 \in 1 .. Len(j.todo)
      /\ Done(j) + 1 \in 1 .. Len(CapturePasses)
  BY <1>1, <1>2 DEF Done
<1>4. Head(j.todo) = CapturePasses[Done(j) + 1]
  BY <1>1, <1>3 DEF Schedule
<1>5. j.at = "plots" <=> Head(j.todo).kind = "plots"
  BY <1>1, Zenon DEF Schedule
<1> QED
  BY <1>1, <1>3, <1>4, <1>5, CapturePassesAre, Zenon

\* A pass that ends leaves a capture on schedule, one pass further.
LEMMA ScheduleTail ==
  ASSUME NEW j, Schedule(j), j.at \notin {"environment", "report"},
         NEW e, e.todo = Tail(j.todo), e.at = Entry(e.todo)
  PROVE  Schedule(e) /\ Done(e) = Done(j) + 1
<1>1. j.todo # << >> /\ j.todo \in Seq(Range(CapturePasses)) /\ Len(j.todo) <= Len(CapturePasses)
  BY Zenon DEF Schedule
<1>2. /\ e.todo \in Seq(Range(CapturePasses)) /\ Len(e.todo) = Len(j.todo) - 1
      /\ \A i \in 1 .. Len(e.todo) : e.todo[i] = j.todo[i + 1]
  BY <1>1
<1>3. Len(j.todo) \in Nat \ {0} /\ Len(CapturePasses) \in Nat
  BY <1>1, PlotsLast
<1>4. Done(e) = Done(j) + 1
  <2>1. \A a, b, n \in Int : b = a - 1 => n - b = (n - a) + 1
    OBVIOUS
  <2>2. Len(j.todo) \in Int /\ Len(e.todo) \in Int /\ Len(CapturePasses) \in Int
    BY <1>2, <1>3
  <2> QED
    BY <1>2, <2>1, <2>2, Zenon DEF Done
<1>5. \A i \in 1 .. Len(e.todo) : e.todo[i] = CapturePasses[Done(e) + i]
  <2> TAKE i \in 1 .. Len(e.todo)
  <2>1. i + 1 \in 1 .. Len(j.todo) /\ Done(j) + (i + 1) = Done(e) + i
    BY <1>2, <1>3, <1>4, SMTT(60) DEF Done
  <2> QED
    BY <1>2, <2>1, Zenon DEF Schedule
<1>6. /\ e.at # "environment" /\ (e.at = "report" <=> e.todo = << >>)
      /\ e.todo # << >> => (e.at = "plots" <=> Head(e.todo).kind = "plots")
  BY EntryIs, Zenon
<1>7. Len(e.todo) <= Len(CapturePasses)
  BY <1>1, <1>2, <1>3
<1> QED
  BY <1>2, <1>4, <1>5, <1>6, <1>7, Zenon DEF Schedule

\* Inside a pass the list stays.
LEMMA ScheduleKept ==
  ASSUME NEW j, Schedule(j), j.at \in ChildSteps, NEW e, e.todo = j.todo, e.at \in ChildSteps
  PROVE  Schedule(e) /\ Done(e) = Done(j)
  BY Zenon DEF Schedule, Done, ChildSteps

\* A process other than the one that steps keeps its job, and the one that
\* steps does one of these.
LEMMA NextOnSchedule == JobsPlaced /\ OnSchedule /\ [Next]_vars => OnSchedule'
<1> SUFFICES ASSUME JobsPlaced, OnSchedule, [Next]_vars PROVE OnSchedule'
  BY Zenon
<1>0. \A p \in Procs : IsJob(job[p])
  BY Zenon DEF JobsPlaced, Placed
<1>a. ASSUME job' = job PROVE OnSchedule'
  BY <1>a, Zenon DEF OnSchedule
<1>b. ASSUME NEW p \in Procs, OthersKept(p),
             job'[p].mode = "capture" /\ job'[p].at # "idle" => Schedule(job'[p])
      PROVE  OnSchedule'
  BY <1>b, Zenon DEF OnSchedule, OthersKept
<1>1. CASE UNCHANGED vars
  BY <1>a, <1>1, Zenon DEF vars
<1>2. CASE EditTree
  BY <1>a, <1>2, Zenon DEF EditTree
<1>3. ASSUME NEW p \in Procs, Refuse(p) PROVE OnSchedule'
  <2>1. OthersKept(p) /\ job'[p] = Stopped(Started(runs + 1, "refused", NONE, << >>, "idle"), "refused")
    BY <1>3, SetFields, Zenon DEF Refuse
  <2> QED
    BY <1>b, <2>1, StartedFields, StoppedFields
<1>4. ASSUME NEW p \in Procs, StartBench(p) PROVE OnSchedule'
  <2>1. PICK req \in Requests :
          job' = [job EXCEPT ![p] = EnterPass(Started(runs + 1, "bench", NONE, << >>, NONE), BenchPasses(req))]
    BY <1>4, Zenon DEF StartBench
  <2>2. OthersKept(p) /\ job'[p] = EnterPass(Started(runs + 1, "bench", NONE, << >>, NONE), BenchPasses(req))
    BY <2>1, SetFields, Zenon
  <2>3. job'[p].mode = "bench"
    BY <2>2, StartedFields, EnterPassFields
  <2> QED
    BY <1>b, <2>2, <2>3, Zenon
<1>5. ASSUME NEW p \in Procs, StartCapture(p) PROVE OnSchedule'
  <2> DEFINE d == Published(run_id(tree))
             started == Started(runs + 1, "capture", d, CapturePasses, "environment")
             failed  == Stopped(Started(runs + 1, "capture", d, << >>, "idle"), "failed")
  <2>1. job' = [job EXCEPT ![p] = started] \/ job' = [job EXCEPT ![p] = failed]
    BY <1>5, Zenon DEF StartCapture
  <2>2. OthersKept(p) /\ (job'[p] = started \/ job'[p] = failed)
    BY <2>1, SetFields, Zenon
  <2>3. started.todo = CapturePasses /\ started.at = "environment" /\ failed.at = "idle"
    BY StartedFields, StoppedFields, SMTT(60)
  <2> HIDE DEF d, started, failed
  <2>4. Len(CapturePasses) - Len(CapturePasses) = 0 /\ CapturePasses # << >>
        /\ \A i \in 1 .. Len(CapturePasses) : 0 + i = i
    BY CapturePassesAre
  <2>5. Schedule(started)
    BY <2>3, <2>4, CapturePassesAre DEF Schedule, Done
  <2> QED
    BY <1>b, <2>2, <2>3, <2>5, Zenon
<1>6. ASSUME NEW p \in Procs, WriteEnvironment(p) PROVE OnSchedule'
  <2>1. PICK e : job' = [job EXCEPT ![p] = e] /\
                 (e = EnterPass(job[p], job[p].todo) \/ e = Stopped(job[p], "failed"))
    BY <1>6, Zenon DEF WriteEnvironment
  <2>2. \/ e.at = "idle"
        \/ e.mode = job[p].mode /\ e.todo = job[p].todo /\ e.at = Entry(e.todo)
    BY <1>0, <2>1, EnterPassFields, StoppedFields
  <2>3. job[p].at = "environment"
    BY <1>6, Zenon DEF WriteEnvironment
  <2>4. e.mode = "capture" /\ e.at # "idle" => Schedule(e)
    <3> SUFFICES ASSUME e.mode = "capture", e.at # "idle" PROVE Schedule(e)
      BY Zenon
    <3>1. Schedule(job[p]) /\ e.todo = job[p].todo /\ e.at = Entry(e.todo)
      BY <2>2, <2>3, Zenon DEF OnSchedule
    <3>2. Done(e) = Done(job[p])
      BY <3>1, Zenon DEF Done
    <3> QED
      BY <3>1, <3>2, EntryIs, Zenon DEF Schedule
  <2>5. OthersKept(p) /\ job'[p] = e
    BY <2>1, SetFields, Zenon
  <2> QED
    BY <1>b, <2>4, <2>5, Zenon
\* The steps inside a pass.
<1>7. ASSUME NEW p \in Procs, OthersKept(p), Kept(job'[p], job[p]), job[p].at \in ChildSteps,
             job'[p].at \in ChildSteps
      PROVE  OnSchedule'
  <2>1. job[p].mode = "capture" => Schedule(job[p])
    BY <1>7, Zenon DEF OnSchedule, ChildSteps
  <2> QED
    BY <1>7, <1>b, <2>1, ScheduleKept, Zenon DEF Kept
<1>8. ASSUME NEW p \in Procs, Build(p) PROVE OnSchedule'
  <2>1. job[p].at = "build"
    BY <1>8, Zenon DEF Build
  <2> QED
    BY <1>7, <1>8, <2>1, BuildFields, Zenon DEF ChildSteps
<1>9. ASSUME NEW p \in Procs, WriteMd(p) \/ WriteRaw(p) PROVE OnSchedule'
  <2>1. PICK d : d = out_dir(p)
    BY Zenon
  <2>2. job[p].at \in {"md", "raw"}
    BY <1>9, Zenon DEF WriteMd, WriteRaw
  <2> QED
    BY <1>7, <1>9, <2>1, <2>2, OutFields, Zenon DEF ChildSteps
<1>10. ASSUME NEW p \in Procs, WriteCsv(p) \/ WriteHdr(p) \/ WriteGnuplot(p) PROVE OnSchedule'
  <2>1. PICK at \in {"clear_hdr", "gnuplot", "run"} : job[p].at \in ChildSteps /\ Goto(p, at)
    BY <1>10, Zenon DEF WriteCsv, WriteHdr, WriteGnuplot, ChildSteps
  <2> QED
    BY <1>7, <2>1, GotoFields, Zenon DEF ChildSteps
<1>11. ASSUME NEW p \in Procs, ClearHdr(p) PROVE OnSchedule'
  <2>1. PICK b : job[p].at = "clear_hdr" /\ job' = [job EXCEPT ![p].at = "hdr", ![p].cleared = b]
    BY <1>11, Zenon DEF ClearHdr
  <2>2. OthersKept(p) /\ Kept(job'[p], job[p]) /\ job'[p].at = "hdr"
    BY <2>1, ClearFields, Zenon
  <2> QED
    BY <1>7, <2>1, <2>2, Zenon DEF ChildSteps
\* The steps that end a pass.
<1>12. ASSUME NEW p \in Procs, job[p].at \in ChildSteps \union {"plots"}, NEW ok \in BOOLEAN,
              job' = [job EXCEPT ![p] = PassDone(job[p], ok)]
       PROVE  OnSchedule'
  <2>1. OthersKept(p) /\ job'[p] = PassDone(job[p], ok)
    BY <1>12, SetFields, Zenon
  <2>2. /\ job'[p].mode = job[p].mode
        /\ job'[p].at = "idle" \/ (job'[p].todo = Tail(job[p].todo) /\ job'[p].at = Entry(job'[p].todo))
    BY <1>0, <2>1, PassDoneFields
  <2>3. job[p].at \notin {"idle", "environment", "report"}
    BY <1>12, Zenon DEF ChildSteps
  <2>4. job'[p].mode = "capture" /\ job'[p].at # "idle" => Schedule(job'[p])
    BY <2>2, <2>3, ScheduleTail, Zenon DEF OnSchedule
  <2> QED
    BY <1>b, <2>1, <2>4, Zenon
<1>13. ASSUME NEW p \in Procs, ChildFails(p) PROVE OnSchedule'
  <2>1. CASE job[p].at = "build"
    <3>1. PICK ok \in BOOLEAN : job' = [job EXCEPT ![p] = PassDone(job[p], ok)]
      BY <1>13, <2>1, Zenon DEF ChildFails
    <3> QED
      BY <1>12, <2>1, <3>1, Zenon DEF ChildSteps
  <2>2. CASE job[p].at # "build"
    <3> DEFINE e == [job[p] EXCEPT !.at = "run", !.ok = FALSE]
    <3>1. job' = [job EXCEPT ![p] = e] /\ job[p].at \in ChildSteps
      BY <1>13, <2>2, Zenon DEF ChildFails
    <3>2. Kept(e, job[p]) /\ e.at = "run"
      BY <1>0, FailFields, Zenon
    <3> HIDE DEF e
    <3> QED
      BY <1>7, <3>1, <3>2, SetFields, Zenon DEF ChildSteps
  <2> QED
    BY <2>1, <2>2, Zenon
<1>14. ASSUME NEW p \in Procs, EndPass(p) PROVE OnSchedule'
  <2>1. \/ job' = [job EXCEPT ![p] = PassDone(job[p], job[p].ok)]
        \/ job' = [job EXCEPT ![p] = PassDone(job[p], FALSE)]
    BY <1>14, Zenon DEF EndPass
  <2>2. PassDone(job[p], job[p].ok) \in {PassDone(job[p], TRUE), PassDone(job[p], FALSE)}
    BY Zenon DEF PassDone, Failure
  <2>3. PICK ok \in BOOLEAN : job' = [job EXCEPT ![p] = PassDone(job[p], ok)]
    BY <2>1, <2>2, Zenon
  <2>4. job[p].at = "run"
    BY <1>14, Zenon DEF EndPass
  <2> QED
    BY <1>12, <2>3, <2>4, Zenon DEF ChildSteps
<1>15. ASSUME NEW p \in Procs, RenderPlots(p) PROVE OnSchedule'
  <2>1. PICK ok \in BOOLEAN : job' = [job EXCEPT ![p] = PassDone(job[p], ok)]
    BY <1>15, Zenon DEF RenderPlots
  <2>2. job[p].at = "plots"
    BY <1>15, Zenon DEF RenderPlots
  <2> QED
    BY <1>12, <2>1, <2>2, Zenon
<1>16. ASSUME NEW p \in Procs, Report(p) \/ Interrupt(p) PROVE OnSchedule'
  <2>1. PICK result : job' = [job EXCEPT ![p] = Stopped(job[p], result)]
    BY <1>16, Zenon DEF Report, Interrupt
  <2>2. OthersKept(p) /\ job'[p] = Stopped(job[p], result)
    BY <2>1, SetFields, Zenon
  <2>3. job'[p].at = "idle"
    BY <1>0, <2>2, StoppedFields
  <2> QED
    BY <1>b, <2>2, <2>3, Zenon
<1> QED
  BY <1>1, <1>2, <1>3, <1>4, <1>5, <1>6, <1>8, <1>9, <1>10, <1>11, <1>13, <1>14, <1>15, <1>16, Zenon DEF Next
-----------------------------------------------------------------------------
\* What the steps do to the files.
LEMMA OverIs ==
  ASSUME NEW new, NEW old
  PROVE  /\ DOMAIN Over(new, old) = DOMAIN new \union DOMAIN old
         /\ \A f \in DOMAIN new : Over(new, old)[f] = new[f]
         /\ \A f \in DOMAIN old \ DOMAIN new : Over(new, old)[f] = old[f]
  BY Zenon DEF Over

\* What Restrict is.
LEMMA RestrictIs ==
  ASSUME NEW D, NEW S
  PROVE  DOMAIN Restrict(D, S) = S /\ \A f \in S : Restrict(D, S)[f] = D[f]
  BY Zenon DEF Restrict

\* Only directory d changes, to D.
Only(d, D) == fs'[d] = D /\ \A x \in Dirs \ {d} : fs'[x] = fs[x]

\* Files S, stamped st, are written into d.
Wrote(d, S, st) ==
  /\ \A x \in Dirs \ {d} : fs'[x] = fs[x]
  /\ DOMAIN fs'[d] = S \union DOMAIN fs[d]
  /\ \A f \in S : fs'[d][f] = st
  /\ \A f \in DOMAIN fs[d] \ S : fs'[d][f] = fs[d][f]

\* Files go from d, and none comes or changes.
Thinned(d) ==
  /\ \A x \in Dirs \ {d} : fs'[x] = fs[x]
  /\ DOMAIN fs'[d] \subseteq DOMAIN fs[d]
  /\ \A f \in DOMAIN fs'[d] : fs'[d][f] = fs[d][f]

\* An update of one directory leaves the others alone.
LEMMA OnlyIs ==
  ASSUME JobsPlaced, NEW d \in Dirs, NEW D, fs' = [fs EXCEPT ![d] = D]
  PROVE  Only(d, D)
  BY Zenon DEF JobsPlaced, Only

\* A write adds its files and keeps the others.
LEMMA PutWrote ==
  ASSUME JobsPlaced, NEW d \in Dirs, NEW S, NEW st, fs' = Put(d, S, st)
  PROVE  Wrote(d, S, st)
<1>1. Only(d, Over([f \in S |-> st], fs[d]))
  BY OnlyIs, Zenon DEF Put
<1> DEFINE new == [f \in S |-> st]
<1>2. DOMAIN new = S /\ \A f \in S : new[f] = st
  BY Zenon
<1>4. Only(d, Over(new, fs[d]))
  BY <1>1, Zenon
<1> HIDE DEF new
<1>3. /\ DOMAIN Over(new, fs[d]) = DOMAIN new \union DOMAIN fs[d]
      /\ \A f \in DOMAIN new : Over(new, fs[d])[f] = new[f]
      /\ \A f \in DOMAIN fs[d] \ DOMAIN new : Over(new, fs[d])[f] = fs[d][f]
  BY OverIs, Zenon
<1> QED
  BY <1>2, <1>3, <1>4, Zenon DEF Only, Wrote

\* A removal keeps some of the files as they were.
LEMMA RestrictThinned ==
  ASSUME JobsPlaced, NEW d \in Dirs, NEW S \in SUBSET DOMAIN fs[d], fs' = [fs EXCEPT ![d] = Restrict(fs[d], S)]
  PROVE  Thinned(d) /\ DOMAIN fs'[d] = S
<1>1. Only(d, Restrict(fs[d], S))
  BY OnlyIs, Zenon
<1> QED
  BY <1>1, RestrictIs DEF Only, Thinned

\* The directories are told apart by their first part.
LEMMA DirsApart ==
  \A id \in RunIds : \A p \in Procs :
    /\ Temp(p) \in Dirs /\ Scratch(id) \in Dirs /\ Published(id) \in Dirs
    /\ Temp(p) \notin {Scratch(id), Published(id)}
    /\ \A i \in RunIds : Scratch(i) # Published(id)
  BY Zenon DEF Dirs, Temp, Scratch, Published

\* What each step writes.
LEMMA FilesWritten ==
  ASSUME JobsPlaced, NEW p \in Procs
  PROVE  /\ WriteMd(p) => Wrote(out_dir(p), {ReportFile(Now(p).crate, "md")}, Stamp(p))
         /\ WriteRaw(p) => \/ Wrote(out_dir(p), {PassFile(Now(p), "raw")}, Stamp(p))
                           \/ Now(p).kind = "alloc" /\ fs' = fs
         /\ WriteCsv(p) => Wrote(job[p].out, {ReportFile(Now(p).crate, "csv")}, Stamp(p))
         /\ WriteHdr(p) => Wrote(job[p].out, Measured(job[p]), Stamp(p))
         /\ WriteGnuplot(p) => Wrote(job[p].out, {ReportFile(Now(p).crate, "gnuplot")}, Stamp(p))
<1>1. out_dir(p) \in Dirs
  BY OutDirIs, Zenon
<1>2. ASSUME job[p].at \in AfterMd PROVE job[p].out \in Dirs
  <2>1. Placed(p, job[p])
    BY Zenon DEF JobsPlaced
  <2>2. /\ Head(job[p].todo).kind \in {"latency", "perfstat"} /\ Temp(p) \in Dirs
        /\ {Scratch(id) : id \in RunIds} \subseteq Dirs
        /\ job[p].mode = "capture" => job[p].dir \in Dirs
    BY <1>2, <2>1, Zenon DEF Placed, WritesReport, Dirs
  <2> QED
    BY <1>2, <2>1, <2>2, Zenon DEF Placed
<1>3. ASSUME NEW d \in Dirs, NEW S, fs' = Put(d, S, Stamp(p)) PROVE Wrote(d, S, Stamp(p))
  <2>1. PICK st : st = Stamp(p)
    BY Zenon
  <2>2. fs' = Put(d, S, st)
    BY <1>3, <2>1, Zenon
  <2>3. Wrote(d, S, st)
    BY <2>2, PutWrote, Zenon
  <2> QED
    BY <2>1, <2>3, Zenon
<1>4. ASSUME NEW d, d = out_dir(p), NEW S, fs' = Put(out_dir(p), S, Stamp(p)) PROVE Wrote(out_dir(p), S, Stamp(p))
  BY <1>1, <1>3, <1>4, Zenon
<1>5. ASSUME NEW d, d = job[p].out, job[p].at \in AfterMd, NEW S, fs' = Put(job[p].out, S, Stamp(p))
      PROVE  Wrote(job[p].out, S, Stamp(p))
  BY <1>2, <1>3, <1>5, Zenon
<1>6. WriteMd(p) => Wrote(out_dir(p), {ReportFile(Now(p).crate, "md")}, Stamp(p))
  BY <1>4, Zenon DEF WriteMd
<1>7. WriteRaw(p) => \/ Wrote(out_dir(p), {PassFile(Now(p), "raw")}, Stamp(p))
                     \/ Now(p).kind = "alloc" /\ fs' = fs
  BY <1>4, Zenon DEF WriteRaw
<1>8. WriteCsv(p) => Wrote(job[p].out, {ReportFile(Now(p).crate, "csv")}, Stamp(p))
  BY <1>5, Zenon DEF WriteCsv, AfterMd
<1>9. WriteGnuplot(p) => Wrote(job[p].out, {ReportFile(Now(p).crate, "gnuplot")}, Stamp(p))
  BY <1>5, Zenon DEF WriteGnuplot, AfterMd
<1>10. WriteHdr(p) => Wrote(job[p].out, Measured(job[p]), Stamp(p))
  BY <1>5, Zenon DEF WriteHdr, AfterMd, Measured, Now
<1> QED
  BY <1>6, <1>7, <1>8, <1>9, <1>10, Zenon

\* Starting a capture empties the directory of its id, or keeps it unread, or
\* fails and leaves a part of it; the ghost notes which.
LEMMA FilesStarted ==
  ASSUME JobsPlaced, NEW p \in Procs, StartCapture(p), NEW d, d = Published(run_id(tree))
  PROVE  /\ d \in Dirs /\ d \in {Published(id) : id \in RunIds} /\ Thinned(d)
         /\ OthersKept(p) /\ runs' = runs + 1
         /\ job'[p].mode = "capture" /\ job'[p].run = runs + 1 /\ job'[p].dir = d /\ job'[p].result # "ok"
         /\ job'[p].at = "environment" => job'[p].todo = CapturePasses
         /\ \/ /\ DOMAIN fs'[d] = {} /\ job'[p].at = "environment"
               /\ claim' = Claimed(d, TRUE, Alone(p, d))
            \/ /\ fs' = fs /\ job'[p].at = "environment"
               /\ claim' = Claimed(d, FALSE, Alone(p, d))
            \/ /\ job'[p].at = "idle"
               /\ claim' = Claimed(d, claim[d].cleared, claim[d].alone /\ Alone(p, d))
<1>1. d \in Dirs /\ d \in {Published(id) : id \in RunIds}
  BY Zenon DEF JobsPlaced, RunIds, Dirs
<1> DEFINE going == Started(runs + 1, "capture", d, CapturePasses, "environment")
           ended == Stopped(Started(runs + 1, "capture", d, << >>, "idle"), "failed")
<1>2. runs' = runs + 1 /\
      \/ /\ fs' = [fs EXCEPT ![d] = Restrict(fs[d], Remaining(d))]
         /\ job' = [job EXCEPT ![p] = going]
         /\ claim' = Claimed(d, TRUE, Alone(p, d))
      \/ /\ fs' = fs
         /\ job' = [job EXCEPT ![p] = going]
         /\ claim' = Claimed(d, FALSE, Alone(p, d))
      \/ /\ \E left \in LeftBehind(d) : fs' = [fs EXCEPT ![d] = Restrict(fs[d], left)]
         /\ job' = [job EXCEPT ![p] = ended]
         /\ claim' = Claimed(d, claim[d].cleared, claim[d].alone /\ Alone(p, d))
  BY ZenonT(60) DEF StartCapture
<1>a. /\ going.mode = "capture" /\ going.run = runs + 1 /\ going.dir = d /\ going.result = NONE
      /\ going.at = "environment" /\ going.todo = CapturePasses
  BY StartedFields
<1>b. /\ ended.mode = "capture" /\ ended.run = runs + 1 /\ ended.dir = d /\ ended.result = "failed"
      /\ ended.at = "idle"
  BY StartedFields, StoppedFields
<1>c. NONE # "ok"
  BY CaptureAssumption, Zenon
<1> HIDE DEF going, ended
<1>3. ASSUME NEW S \in SUBSET DOMAIN fs[d], fs' = [fs EXCEPT ![d] = Restrict(fs[d], S)]
      PROVE  Thinned(d) /\ DOMAIN fs'[d] = S
  BY <1>1, <1>3, RestrictThinned, Zenon
<1>4. Remaining(d) \in SUBSET DOMAIN fs[d] /\ Remaining(d) = {}
  BY Zenon DEF Remaining
<1>5. \A left \in LeftBehind(d) : left \in SUBSET DOMAIN fs[d]
  BY Zenon DEF LeftBehind
<1>6. fs' = fs => Thinned(d)
  BY Zenon DEF Thinned
<1>7. ASSUME NEW e, job' = [job EXCEPT ![p] = e] PROVE OthersKept(p) /\ job'[p] = e
  BY <1>7, SetFields, Zenon
<1>8. CASE /\ fs' = [fs EXCEPT ![d] = Restrict(fs[d], Remaining(d))]
           /\ job' = [job EXCEPT ![p] = going]
           /\ claim' = Claimed(d, TRUE, Alone(p, d))
  <2>1. Thinned(d) /\ DOMAIN fs'[d] = {}
    BY <1>3, <1>4, <1>8, Zenon
  <2>2. OthersKept(p) /\ job'[p] = going
    BY <1>7, <1>8, Zenon
  <2> QED
    BY <1>1, <1>2, <1>8, <1>a, <1>c, <2>1, <2>2, Zenon
<1>9. CASE fs' = fs /\ job' = [job EXCEPT ![p] = going] /\ claim' = Claimed(d, FALSE, Alone(p, d))
  <2>1. OthersKept(p) /\ job'[p] = going
    BY <1>7, <1>9, Zenon
  <2> QED
    BY <1>1, <1>2, <1>6, <1>9, <1>a, <1>c, <2>1, Zenon
<1>10. CASE /\ \E left \in LeftBehind(d) : fs' = [fs EXCEPT ![d] = Restrict(fs[d], left)]
            /\ job' = [job EXCEPT ![p] = ended]
            /\ claim' = Claimed(d, claim[d].cleared, claim[d].alone /\ Alone(p, d))
  <2>1. Thinned(d)
    BY <1>3, <1>5, <1>10, Zenon
  <2>2. OthersKept(p) /\ job'[p] = ended
    BY <1>7, <1>10, Zenon
  <2> QED
    BY <1>1, <1>2, <1>10, <1>b, <2>1, <2>2, Zenon
<1> QED
  BY <1>2, <1>8, <1>9, <1>10, Zenon

\* remove_dir_all took `gone`, and the ghost knows if that was all.
ClearedTo(p, d, gone) ==
  /\ DOMAIN fs'[d] = DOMAIN fs[d] \ gone
  /\ job'[p].cleared => gone = HdrFiles(d, Now(p).crate)

\* write_run's removal of old curves takes some of them, and all if it
\* succeeded.
LEMMA FilesCleared ==
  ASSUME JobsPlaced, NEW p \in Procs, ClearHdr(p), NEW d, d = job[p].out
  PROVE  /\ d \in Dirs /\ Thinned(d) /\ OthersKept(p) /\ Kept(job'[p], job[p])
         /\ job'[p].at = "hdr" /\ job'[p].built = job[p].built /\ job'[p].out = job[p].out
         /\ \E gone \in SUBSET HdrFiles(d, Now(p).crate) : ClearedTo(p, d, gone)
<1>1. d \in Dirs
  <2>1. Placed(p, job[p]) /\ job[p].at = "clear_hdr"
    BY Zenon DEF JobsPlaced, ClearHdr
  <2>2. /\ Head(job[p].todo).kind \in {"latency", "perfstat"} /\ Temp(p) \in Dirs
        /\ {Scratch(id) : id \in RunIds} \subseteq Dirs
        /\ job[p].mode = "capture" => job[p].dir \in Dirs
    BY <2>1, Zenon DEF Placed, WritesReport, Dirs, AfterMd
  <2> QED
    BY <2>1, <2>2, Zenon DEF Placed, AfterMd
<1>2. PICK gone \in SUBSET HdrFiles(d, Now(p).crate) :
         /\ fs' = Dropped(d, gone)
         /\ job' = [job EXCEPT ![p].at = "hdr", ![p].cleared = (gone = HdrFiles(d, Now(p).crate))]
  BY Zenon DEF ClearHdr, ReplacedHdr
<1>3. fs' = [fs EXCEPT ![d] = Restrict(fs[d], DOMAIN fs[d] \ gone)]
  BY <1>2, Zenon DEF Dropped
<1>4. PICK S : S = DOMAIN fs[d] \ gone
  BY Zenon
<1>5. S \in SUBSET DOMAIN fs[d] /\ fs' = [fs EXCEPT ![d] = Restrict(fs[d], S)]
  BY <1>3, <1>4, Zenon
<1>6. Thinned(d) /\ DOMAIN fs'[d] = S
  BY <1>1, <1>5, RestrictThinned, Zenon
<1>7. PICK b : b = (gone = HdrFiles(d, Now(p).crate))
  BY Zenon
<1>8. job' = [job EXCEPT ![p].at = "hdr", ![p].cleared = b]
  BY <1>2, <1>7, Zenon
<1>9. /\ OthersKept(p) /\ Kept(job'[p], job[p]) /\ job'[p].at = "hdr" /\ job'[p].cleared = b
      /\ job'[p].built = job[p].built /\ job'[p].out = job[p].out
  <2>1. OthersKept(p) /\ Kept(job'[p], job[p]) /\ job'[p].at = "hdr"
    BY <1>8, ClearFields, Zenon
  <2>2. job'[p].built = job[p].built /\ job'[p].out = job[p].out
    BY <1>8, ClearFields, Zenon
  <2>3. job'[p].cleared = b
    <3>1. job = [q \in Procs |-> job[q]] /\ IsJob(job[p])
      BY Zenon DEF JobsPlaced, Placed
    <3>2. job'[p] = [job[p] EXCEPT !.at = "hdr", !.cleared = b]
      BY <1>8, <3>1, Zenon
    <3> QED
      BY <3>1, <3>2, Zenon DEF IsJob, JobFields
  <2> QED
    BY <2>1, <2>2, <2>3, Zenon
<1>10. job'[p].cleared => gone = HdrFiles(d, Now(p).crate)
  BY <1>7, <1>9, Zenon
<1>11. ClearedTo(p, d, gone)
  BY <1>4, <1>6, <1>10, Zenon DEF ClearedTo
<1> QED
  BY <1>1, <1>6, <1>9, <1>11, Zenon

\* The process failed: perhaps some of its .hdr files are there.
LEMMA FilesFailed ==
  ASSUME JobsPlaced, NEW p \in Procs, ChildFails(p), NEW d, d = job[p].out
  PROVE  \/ fs' = fs
         \/ /\ job[p].at = "hdr" /\ d \in Dirs
            /\ \E S \in SUBSET Measured(job[p]) : Wrote(d, S, Stamp(p))
<1>1. CASE job[p].at # "hdr"
  BY <1>1, Zenon DEF ChildFails
<1>2. CASE job[p].at = "hdr"
  <2>1. d \in Dirs
    <3>1. Placed(p, job[p])
      BY Zenon DEF JobsPlaced
    <3>2. /\ Head(job[p].todo).kind \in {"latency", "perfstat"} /\ Temp(p) \in Dirs
          /\ {Scratch(id) : id \in RunIds} \subseteq Dirs
          /\ job[p].mode = "capture" => job[p].dir \in Dirs
      BY <1>2, <3>1, Zenon DEF Placed, WritesReport, Dirs, AfterMd
    <3> QED
      BY <1>2, <3>1, <3>2, Zenon DEF Placed, AfterMd
  <2>2. PICK L \in SUBSET Scenarios[job[p].built] :
          fs' = Put(d, {Hdr(Now(p).crate, l) : l \in L}, Stamp(p))
    BY <1>2, ZenonT(60) DEF ChildFails
  <2>3. PICK S, st : S = {Hdr(Now(p).crate, l) : l \in L} /\ st = Stamp(p)
    BY ZenonT(60)
  <2>4. S \in SUBSET Measured(job[p])
    BY <2>2, <2>3, Zenon DEF Measured, Now
  <2>5. fs' = Put(d, S, st)
    BY <2>2, <2>3, Zenon
  <2>6. Wrote(d, S, st)
    BY <2>1, <2>5, PutWrote, Zenon
  <2> QED
    BY <1>2, <2>1, <2>3, <2>4, <2>6, Zenon
<1> QED
  BY <1>1, <1>2, Zenon

\* The pass's output is kept in d, and p's temporary directory is removed.
Teed(p, d) ==
  /\ \A x \in Dirs \ {d, Temp(p)} : fs'[x] = fs[x]
  /\ DOMAIN fs'[d] = {PassFile(Now(p), "txt")} \union DOMAIN fs[d]
  /\ fs'[d][PassFile(Now(p), "txt")] = Stamp(p)
  /\ \A f \in DOMAIN fs[d] \ {PassFile(Now(p), "txt")} : fs'[d][f] = fs[d][f]

Swept(p) == \A x \in Dirs \ {Temp(p)} : fs'[x] = fs[x]

\* The end of a pass drops perfstat's directory and writes the pass's text into
\* a capture's.
LEMMA FilesEnded ==
  ASSUME JobsPlaced, NEW p \in Procs, EndPass(p), NEW d, d = job[p].dir
  PROVE  /\ OthersKept(p) /\ fs'[Temp(p)] = NoFiles
         /\ \/ /\ job[p].mode = "capture" /\ d \in {Published(id) : id \in RunIds} /\ Teed(p, d)
               /\ job'[p] = PassDone(job[p], job[p].ok)
            \/ /\ Swept(p)
               /\ \/ job[p].mode = "capture" /\ job'[p] = PassDone(job[p], FALSE)
                  \/ job[p].mode # "capture" /\ job'[p] = PassDone(job[p], job[p].ok)
<1> DEFINE cleaned == [fs EXCEPT ![Temp(p)] = NoFiles]
<1>1. Temp(p) \in Dirs /\ fs = [x \in Dirs |-> fs[x]]
  BY DirsApart, Zenon DEF JobsPlaced, RunIds
<1>2. /\ cleaned = [x \in Dirs |-> cleaned[x]] /\ cleaned[Temp(p)] = NoFiles
      /\ \A x \in Dirs \ {Temp(p)} : cleaned[x] = fs[x]
  BY <1>1, Zenon
<1>3. \/ /\ job[p].mode = "capture"
         /\ fs' = [cleaned EXCEPT ![d] = Over([f \in {PassFile(Now(p), "txt")} |-> Stamp(p)], cleaned[d])]
         /\ job' = [job EXCEPT ![p] = PassDone(job[p], job[p].ok)]
      \/ /\ job[p].mode # "capture" /\ fs' = cleaned /\ job' = [job EXCEPT ![p] = PassDone(job[p], job[p].ok)]
      \/ /\ job[p].mode = "capture" /\ fs' = cleaned /\ job' = [job EXCEPT ![p] = PassDone(job[p], FALSE)]
  BY Zenon DEF EndPass
<1> HIDE DEF cleaned
<1>4. ASSUME NEW ok, job' = [job EXCEPT ![p] = PassDone(job[p], ok)]
      PROVE  OthersKept(p) /\ job'[p] = PassDone(job[p], ok)
  BY <1>4, SetFields, Zenon
<1>5. CASE /\ job[p].mode = "capture"
           /\ fs' = [cleaned EXCEPT ![d] = Over([f \in {PassFile(Now(p), "txt")} |-> Stamp(p)], cleaned[d])]
           /\ job' = [job EXCEPT ![p] = PassDone(job[p], job[p].ok)]
  <2>1. d \in {Published(id) : id \in RunIds} /\ d \in Dirs /\ d # Temp(p)
    BY <1>5, DirsApart DEF JobsPlaced, Placed
  <2>2. PICK file, st : file = PassFile(Now(p), "txt") /\ st = Stamp(p)
    BY Zenon
  <2> DEFINE new == [f \in {file} |-> st]
  <2>3. fs' = [cleaned EXCEPT ![d] = Over(new, cleaned[d])]
    BY <1>5, <2>2, Zenon
  <2>4. DOMAIN new = {file} /\ new[file] = st
    BY Zenon
  <2> HIDE DEF new
  <2>a. /\ DOMAIN Over(new, fs[d]) = DOMAIN new \union DOMAIN fs[d]
        /\ \A f \in DOMAIN new : Over(new, fs[d])[f] = new[f]
        /\ \A f \in DOMAIN fs[d] \ DOMAIN new : Over(new, fs[d])[f] = fs[d][f]
    BY Zenon DEF Over
  <2>5. /\ DOMAIN Over(new, fs[d]) = {file} \union DOMAIN fs[d]
        /\ Over(new, fs[d])[file] = st
        /\ \A f \in DOMAIN fs[d] \ {file} : Over(new, fs[d])[f] = fs[d][f]
    BY <2>4, <2>a, Zenon
  <2>6. /\ fs'[d] = Over(new, fs[d]) /\ fs'[Temp(p)] = NoFiles
        /\ \A x \in Dirs \ {d, Temp(p)} : fs'[x] = fs[x]
    BY <1>1, <1>2, <2>1, <2>3, Zenon
  <2>7. OthersKept(p) /\ job'[p] = PassDone(job[p], job[p].ok)
    BY <1>4, <1>5, Zenon
  <2>8. Teed(p, d)
    BY <2>2, <2>5, <2>6, Zenon DEF Teed
  <2> QED
    BY <1>5, <2>1, <2>6, <2>7, <2>8, Zenon
<1>6. ASSUME fs' = cleaned PROVE Swept(p) /\ fs'[Temp(p)] = NoFiles
  BY <1>2, <1>6, Zenon DEF Swept
<1> QED
  BY <1>3, <1>4, <1>5, <1>6, Zenon

\* A plot of each file of T appears in d.
Drew(p, d, T) ==
  /\ \A x \in Dirs \ {d} : fs'[x] = fs[x]
  /\ DOMAIN fs'[d] = {Svg(f) : f \in T} \union DOMAIN fs[d]
  /\ \A f \in T : fs'[d][Svg(f)].run = job[p].run
  /\ \A f \in DOMAIN fs[d] \ {Svg(g) : g \in T} : fs'[d][f] = fs[d][f]

\* The plots add an .svg to some of the scripts, and the pass succeeds if it is
\* all of them.
LEMMA FilesDrawn ==
  ASSUME JobsPlaced, NEW p \in Procs, RenderPlots(p),
         NEW d, d = IF job[p].mode = "capture" THEN job[p].dir ELSE out_dir(p)
  PROVE  /\ OthersKept(p) /\ d \in Dirs
         /\ \E drawn \in SUBSET Drawable(p, d) :
              /\ Drew(p, d, drawn)
              /\ job'[p] = PassDone(job[p], drawn = Drawable(p, d) /\ Scripts(p, d) # {})
<1>1. d \in Dirs
  BY OutDirIs, DirsApart DEF JobsPlaced, Placed
<1>2. PICK drawn \in SUBSET Drawable(p, d) :
        /\ fs' = [fs EXCEPT ![d] = Over([g \in {Svg(f) : f \in drawn} |-> Stamp(p)], fs[d])]
        /\ job' = [job EXCEPT ![p] = PassDone(job[p], drawn = Drawable(p, d) /\ Scripts(p, d) # {})]
  BY Zenon DEF RenderPlots
<1>3. PICK new : new = [g \in {Svg(f) : f \in drawn} |-> Stamp(p)]
  BY Zenon
<1>4. /\ DOMAIN new = {Svg(f) : f \in drawn}
      /\ \A f \in drawn : new[Svg(f)].run = job[p].run
  BY <1>3, Zenon DEF Stamp
<1>5. Only(d, Over(new, fs[d]))
  <2>1. PICK D : D = Over(new, fs[d])
    BY Zenon
  <2>2. fs' = [fs EXCEPT ![d] = D]
    BY <1>2, <1>3, <2>1, Zenon
  <2>3. Only(d, D)
    BY <1>1, <2>2, OnlyIs, ZenonT(60)
  <2> QED
    BY <2>1, <2>3, Zenon
<1>6. /\ DOMAIN Over(new, fs[d]) = DOMAIN new \union DOMAIN fs[d]
      /\ \A f \in DOMAIN new : Over(new, fs[d])[f] = new[f]
      /\ \A f \in DOMAIN fs[d] \ DOMAIN new : Over(new, fs[d])[f] = fs[d][f]
  BY Zenon DEF Over
<1>7. /\ DOMAIN fs'[d] = {Svg(f) : f \in drawn} \union DOMAIN fs[d]
      /\ \A f \in drawn : fs'[d][Svg(f)].run = job[p].run
      /\ \A f \in DOMAIN fs[d] \ {Svg(g) : g \in drawn} : fs'[d][f] = fs[d][f]
  <2>1. \A f \in drawn : Svg(f) \in DOMAIN new
    BY <1>4, Zenon
  <2>2. DOMAIN fs'[d] = DOMAIN new \union DOMAIN fs[d] /\ \A f \in DOMAIN new : fs'[d][f] = new[f]
    BY <1>5, <1>6, Zenon DEF Only
  <2>3. \A f \in DOMAIN fs[d] \ DOMAIN new : fs'[d][f] = fs[d][f]
    BY <1>5, <1>6, Zenon DEF Only
  <2>4. \A f \in drawn : fs'[d][Svg(f)].run = job[p].run
    BY <1>4, <2>1, <2>2, Zenon
  <2> QED
    BY <1>4, <2>2, <2>3, <2>4, Zenon
<1>8. OthersKept(p) /\ job'[p] = PassDone(job[p], drawn = Drawable(p, d) /\ Scripts(p, d) # {})
  <2>1. PICK e : e = PassDone(job[p], drawn = Drawable(p, d) /\ Scripts(p, d) # {})
    BY Zenon
  <2>2. job' = [job EXCEPT ![p] = e]
    BY <1>2, <2>1, Zenon
  <2> QED
    BY <2>1, <2>2, SetFields, Zenon
<1>9. \A x \in Dirs \ {d} : fs'[x] = fs[x]
  BY <1>5, Zenon DEF Only
<1>10. Drew(p, d, drawn)
  BY <1>7, <1>9, Zenon DEF Drew
<1> QED
  BY <1>1, <1>8, <1>10, ZenonT(60)
-----------------------------------------------------------------------------
\* The files a report is made of, by name.
IsReport(f) == f[1] = "report" /\ f[3] # "svg"

AllClean == \A id \in RunIds : \A d \in {Scratch(id), Published(id)} :
  \A f \in DOMAIN fs[d] : IsReport(f) => fs[d][f].pass = "latency"

\* Neither the environment, nor a plot, nor a pass's text has the name of a
\* report file.
LEMMA FileNames ==
  /\ ~IsReport(Environment)
  /\ \A f : ~IsReport(Svg(f))
  /\ \A pass, ext : pass.kind # "report" => ~IsReport(PassFile(pass, ext))
  BY Zenon DEF IsReport, Environment, Svg, PassFile

\* write_run puts a report outside a temporary directory in a latency pass only.
LEMMA ReportsGoWhere ==
  ASSUME JobsPlaced, NEW p \in Procs
  PROVE  /\ job[p].at = "md" => out_dir(p) = Temp(p) \/ Stamp(p).pass = "latency"
         /\ job[p].at \in AfterMd => job[p].out = Temp(p) \/ Stamp(p).pass = "latency"
<1>1. Stamp(p).pass = Head(job[p].todo).kind /\ Now(p) = Head(job[p].todo)
  BY Zenon DEF Stamp, Now
<1>2. Placed(p, job[p])
  BY Zenon DEF JobsPlaced
<1>3. job[p].at = "md" => out_dir(p) = Temp(p) \/ Stamp(p).pass = "latency"
  BY <1>1, <1>2, OutDirIs, Zenon DEF Placed, WritesReport
<1>4. job[p].at \in AfterMd => job[p].out = Temp(p) \/ Stamp(p).pass = "latency"
  BY <1>1, <1>2, Zenon DEF Placed, WritesReport
<1> QED
  BY <1>3, <1>4, Zenon

\* Every step keeps the reports clean: only a latency pass writes one outside
\* the temporary directories.
LEMMA NextClean == JobsPlaced /\ OnSchedule /\ AllClean /\ [Next]_vars => AllClean'
<1> SUFFICES ASSUME JobsPlaced, OnSchedule, AllClean, [Next]_vars PROVE AllClean'
  BY Zenon
<1>a. ASSUME fs' = fs PROVE AllClean'
  BY <1>a, Zenon DEF AllClean
<1>b. ASSUME NEW d \in Dirs, NEW S, NEW st, Wrote(d, S, st),
             \/ d \in {Temp(p) : p \in Procs}
             \/ st.pass = "latency"
             \/ \A f \in S : ~IsReport(f)
      PROVE  AllClean'
  <2> SUFFICES ASSUME NEW id \in RunIds, NEW x \in {Scratch(id), Published(id)}, NEW f \in DOMAIN fs'[x], IsReport(f)
               PROVE  fs'[x][f].pass = "latency"
    BY Zenon DEF AllClean
  <2>1. x \in Dirs /\ x \notin {Temp(p) : p \in Procs}
    BY DirsApart, Zenon DEF Dirs
  <2>2. f \in DOMAIN fs[x] => fs[x][f].pass = "latency"
    BY Zenon DEF AllClean
  <2> QED
    BY <1>b, <2>1, <2>2, Zenon DEF Wrote
<1>c. ASSUME NEW d \in Dirs, Thinned(d) PROVE AllClean'
  <2> SUFFICES ASSUME NEW id \in RunIds, NEW x \in {Scratch(id), Published(id)}, NEW f \in DOMAIN fs'[x], IsReport(f)
               PROVE  fs'[x][f].pass = "latency"
    BY Zenon DEF AllClean
  <2>1. x \in Dirs
    BY Zenon DEF Dirs
  <2>2. f \in DOMAIN fs[x] /\ fs'[x][f] = fs[x][f]
    BY <1>c, <2>1, Zenon DEF Thinned
  <2> QED
    BY <2>2, Zenon DEF AllClean
<1>1. CASE UNCHANGED vars
  BY <1>a, <1>1, Zenon DEF vars
<1>2. CASE EditTree
  BY <1>a, <1>2, Zenon DEF EditTree
<1>3. ASSUME NEW p \in Procs, Refuse(p) \/ StartBench(p) \/ Build(p) \/ Report(p) PROVE AllClean'
  BY <1>3, <1>a, Zenon DEF Refuse, StartBench, Build, Report
<1>4. ASSUME NEW p \in Procs, StartCapture(p) PROVE AllClean'
  <2>1. PICK d : d = Published(run_id(tree))
    BY Zenon
  <2> QED
    BY <1>4, <1>c, <2>1, FilesStarted, Zenon
<1>5. ASSUME NEW p \in Procs, WriteEnvironment(p) PROVE AllClean'
  <2>1. CASE fs' = fs
    BY <1>a, <2>1, Zenon
  <2>2. CASE fs' # fs
    <3>1. PICK d, st : /\ d = job[p].dir /\ st = [run |-> job[p].run, pass |-> "environment"]
      BY Zenon
    <3>2. fs' = Put(d, {Environment}, st)
      BY <1>5, <2>2, <3>1, Zenon DEF WriteEnvironment
    <3>3. CASE d \in Dirs
      <4>1. Wrote(d, {Environment}, st)
        BY <3>2, <3>3, PutWrote, Zenon
      <4> QED
        BY <1>b, <3>3, <4>1, FileNames, Zenon
    <3>4. CASE d \notin Dirs
      <4>1. fs' = [fs EXCEPT ![d] = Over([f \in {Environment} |-> st], fs[d])] /\ fs = [x \in Dirs |-> fs[x]]
        BY <3>2, Zenon DEF Put, JobsPlaced
      <4>2. fs' = fs
        BY <3>4, <4>1, Zenon
      <4> QED
        BY <1>a, <4>2, Zenon
    <3> QED
      BY <3>3, <3>4, Zenon
  <2> QED
    BY <2>1, <2>2, Zenon
<1>6. ASSUME NEW p \in Procs, WriteMd(p) PROVE AllClean'
  <2>1. PICK d, S, st : d = out_dir(p) /\ S = {ReportFile(Now(p).crate, "md")} /\ st = Stamp(p)
    BY Zenon
  <2>2. Wrote(d, S, st) /\ d \in Dirs /\ (d = Temp(p) \/ st.pass = "latency")
    BY <1>6, <2>1, FilesWritten, OutDirIs, ReportsGoWhere, Zenon DEF WriteMd
  <2> QED
    BY <1>b, <2>2, Zenon
<1>7. ASSUME NEW p \in Procs, job[p].at \in AfterMd, NEW S, Wrote(job[p].out, S, Stamp(p)) PROVE AllClean'
  <2>1. PICK d, st : d = job[p].out /\ st = Stamp(p)
    BY Zenon
  <2>2. d = Temp(p) \/ st.pass = "latency"
    BY <1>7, <2>1, ReportsGoWhere, Zenon
  <2>3. d \in Dirs
    <3>1. Placed(p, job[p])
      BY Zenon DEF JobsPlaced
    <3>2. /\ Head(job[p].todo).kind \in {"latency", "perfstat"} /\ Temp(p) \in Dirs
          /\ {Scratch(id) : id \in RunIds} \subseteq Dirs
          /\ job[p].mode = "capture" => job[p].dir \in Dirs
      BY <1>7, <3>1, Zenon DEF Placed, WritesReport, Dirs
    <3> QED
      BY <1>7, <2>1, <3>1, <3>2, Zenon DEF Placed
  <2>4. Wrote(d, S, st)
    BY <1>7, <2>1, Zenon
  <2> QED
    BY <1>b, <2>2, <2>3, <2>4, Zenon
<1>8. ASSUME NEW p \in Procs, WriteCsv(p) \/ WriteHdr(p) \/ WriteGnuplot(p) PROVE AllClean'
  <2>1. job[p].at \in AfterMd
    BY <1>8, Zenon DEF WriteCsv, WriteHdr, WriteGnuplot, AfterMd
  <2>2. PICK S : Wrote(job[p].out, S, Stamp(p))
    BY <1>8, FilesWritten, Zenon
  <2> QED
    BY <1>7, <2>1, <2>2, Zenon
<1>9. ASSUME NEW p \in Procs, ClearHdr(p) PROVE AllClean'
  <2>1. PICK d : d = job[p].out
    BY Zenon
  <2>2. d \in Dirs /\ Thinned(d)
    BY <1>9, <2>1, FilesCleared, Zenon
  <2> QED
    BY <1>c, <2>2, Zenon
<1>10. ASSUME NEW p \in Procs, WriteRaw(p) PROVE AllClean'
  <2>1. PICK d, S, st : d = out_dir(p) /\ S = {PassFile(Now(p), "raw")} /\ st = Stamp(p)
    BY Zenon
  <2>2. (Wrote(d, S, st) \/ fs' = fs) /\ d \in Dirs
    BY <1>10, <2>1, FilesWritten, OutDirIs, Zenon
  <2>3. Now(p).kind \in {"cross_core", "alloc"}
    BY <1>10, Zenon DEF JobsPlaced, Placed, WriteRaw, Now
  <2>4. \A f \in S : ~IsReport(f)
    BY <2>1, <2>3, FileNames, Zenon
  <2> QED
    BY <1>a, <1>b, <2>2, <2>4, Zenon
<1>11. ASSUME NEW p \in Procs, ChildFails(p) PROVE AllClean'
  <2>1. PICK d : d = job[p].out
    BY Zenon
  <2>2. CASE fs' = fs
    BY <1>a, <2>2, Zenon
  <2>3. CASE job[p].at = "hdr" /\ \E S \in SUBSET Measured(job[p]) : Wrote(d, S, Stamp(p))
    BY <1>7, <2>1, <2>3, Zenon DEF AfterMd
  <2> QED
    BY <1>11, <2>1, <2>2, <2>3, FilesFailed, Zenon
<1>12. ASSUME NEW p \in Procs, EndPass(p) PROVE AllClean'
  <2>1. PICK d, file : d = job[p].dir /\ file = PassFile(Now(p), "txt")
    BY Zenon
  <2> SUFFICES ASSUME NEW id \in RunIds, NEW x \in {Scratch(id), Published(id)}, NEW f \in DOMAIN fs'[x], IsReport(f)
               PROVE  fs'[x][f].pass = "latency"
    BY Zenon DEF AllClean
  <2>2. x \in Dirs /\ x # Temp(p)
    BY DirsApart, Zenon
  <2>3. f \in DOMAIN fs[x] => fs[x][f].pass = "latency"
    BY Zenon DEF AllClean
  <2>4. job[p].mode = "capture" => ~IsReport(file)
    <3> SUFFICES ASSUME job[p].mode = "capture" PROVE ~IsReport(file)
      BY Zenon
    <3>1. job[p].at = "run" /\ Schedule(job[p])
      BY <1>12, Zenon DEF EndPass, OnSchedule
    <3>2. Now(p).kind \in Kinds
      BY <3>1, ScheduleHead, Zenon DEF Now
    <3> QED
      BY <2>1, <3>2, FileNames, Zenon DEF Kinds
  <2>5. \/ /\ job[p].mode = "capture"
           /\ \A y \in Dirs \ {d, Temp(p)} : fs'[y] = fs[y]
           /\ DOMAIN fs'[d] = {file} \union DOMAIN fs[d]
           /\ \A g \in DOMAIN fs[d] \ {file} : fs'[d][g] = fs[d][g]
        \/ \A y \in Dirs \ {Temp(p)} : fs'[y] = fs[y]
    <3>1. (job[p].mode = "capture" /\ Teed(p, d)) \/ Swept(p)
      BY <1>12, <2>1, FilesEnded, ZenonT(60)
    <3> QED
      BY <2>1, <3>1, ZenonT(60) DEF Teed, Swept
  <2> QED
    BY <2>2, <2>3, <2>4, <2>5, Zenon
<1>13. ASSUME NEW p \in Procs, RenderPlots(p) PROVE AllClean'
  <2>1. PICK d : d = IF job[p].mode = "capture" THEN job[p].dir ELSE out_dir(p)
    BY Zenon
  <2> SUFFICES ASSUME NEW id \in RunIds, NEW x \in {Scratch(id), Published(id)}, NEW f \in DOMAIN fs'[x], IsReport(f)
               PROVE  fs'[x][f].pass = "latency"
    BY Zenon DEF AllClean
  <2>2. x \in Dirs
    BY DirsApart, Zenon DEF Dirs
  <2>3. f \in DOMAIN fs[x] => fs[x][f].pass = "latency"
    BY Zenon DEF AllClean
  <2>4. PICK T :
          /\ \A y \in Dirs \ {d} : fs'[y] = fs[y]
          /\ DOMAIN fs'[d] = {Svg(g) : g \in T} \union DOMAIN fs[d]
          /\ \A g \in DOMAIN fs[d] \ {Svg(h) : h \in T} : fs'[d][g] = fs[d][g]
    <3>1. \E T : Drew(p, d, T)
      BY <1>13, <2>1, FilesDrawn, Zenon
    <3> QED
      BY <3>1, ZenonT(60) DEF Drew
  <2>5. f \notin {Svg(g) : g \in T}
    BY FileNames, Zenon
  <2> QED
    BY <2>2, <2>3, <2>4, <2>5, Zenon
<1>14. ASSUME NEW p \in Procs, Interrupt(p) PROVE AllClean'
  <2>1. PICK d, D : d = Temp(p) /\ D = NoFiles /\ d \in Dirs
    BY Zenon DEF Dirs
  <2>2. fs' = [fs EXCEPT ![d] = D]
    BY <1>14, <2>1, Zenon DEF Interrupt
  <2>3. Only(d, D)
    BY <2>1, <2>2, OnlyIs, Zenon
  <2>4. Thinned(d)
    BY <2>1, <2>3, Zenon DEF Only, Thinned, NoFiles
  <2> QED
    BY <1>c, <2>1, <2>4, Zenon
<1> QED
  BY <1>1, <1>2, <1>3, <1>4, <1>5, <1>6, <1>8, <1>9, <1>10, <1>11, <1>12, <1>13, <1>14, Zenon DEF Next

\* A perf-instrumented bench never overwrites the reports of the clean latency
\* pass: however passes fail, processes interleave and trees change, every
\* report file in a scratch or published directory is from a latency pass
\* (run_perfstat gives its bench a BENCH_OUT_DIR of its own).
THEOREM ReportsStayClean == Spec => []ReportsAreFromTheLatencyPass
<1>1. Init => JobsPlaced /\ OnSchedule /\ AllClean
  <2> SUFFICES ASSUME Init PROVE OnSchedule /\ AllClean
    BY InitPlaced, Zenon
  <2>1. OnSchedule
    BY Zenon DEF Init, OnSchedule, NoJob
  <2>2. \A id \in RunIds : \A d \in {Scratch(id), Published(id)} : DOMAIN fs[d] = {}
    BY Zenon DEF Init, NoFiles, Dirs
  <2>3. AllClean
    BY <2>2, Zenon DEF AllClean
  <2> QED
    BY <2>1, <2>3, Zenon
<1>2. JobsPlaced /\ OnSchedule /\ AllClean /\ [Next]_vars => (JobsPlaced /\ OnSchedule /\ AllClean)'
  BY NextPlaced, NextOnSchedule, NextClean, Zenon
<1>3. AllClean => ReportsAreFromTheLatencyPass
  BY Zenon DEF AllClean, ReportsAreFromTheLatencyPass, IsReport
<1> QED
  BY <1>1, <1>2, <1>3, PTL DEF Spec
-----------------------------------------------------------------------------
Step(p) ==
  \/ Refuse(p) \/ StartBench(p) \/ StartCapture(p) \/ WriteEnvironment(p)
  \/ Build(p) \/ WriteMd(p) \/ WriteCsv(p) \/ ClearHdr(p) \/ WriteHdr(p) \/ WriteGnuplot(p)
  \/ WriteRaw(p) \/ ChildFails(p) \/ EndPass(p) \/ RenderPlots(p) \/ Report(p) \/ Interrupt(p)

\* Directory contents that differ in plots at most.
SameBut(D, E) ==
  \A f \in DOMAIN D \union DOMAIN E :
    f[3] # "svg" => f \in DOMAIN D /\ f \in DOMAIN E /\ D[f] = E[f]

\* A step of p leaves the other jobs alone, and the directories that p does not
\* work in but for plots in a scratch directory.
Frame(p) ==
  /\ OthersKept(p)
  /\ \A x \in Dirs \ {job[p].dir, job[p].out, job'[p].dir, job'[p].out, Temp(p)} :
       SameBut(fs[x], fs'[x]) /\ (x \in {Published(id) : id \in RunIds} => fs'[x] = fs[x])

\* A directory that is left alone keeps its report.
LEMMA SameAlways == \A D : SameBut(D, D)
  BY Zenon DEF SameBut

\* What a step changes outside the directories of its process.
LEMMA StepFrame ==
  ASSUME JobsPlaced, NEW p \in Procs, Step(p)
  PROVE  Frame(p)
<1>0. IsJob(job[p])
  BY Zenon DEF JobsPlaced, Placed
<1>a. ASSUME OthersKept(p), fs' = fs PROVE Frame(p)
  BY <1>a, SameAlways, Zenon DEF Frame
<1>b. ASSUME NEW d, d \in {job[p].dir, job[p].out, job'[p].dir, job'[p].out, Temp(p)},
             OthersKept(p), \A x \in Dirs \ {d} : fs'[x] = fs[x]
      PROVE  Frame(p)
  BY <1>b, SameAlways, Zenon DEF Frame
<1>1. CASE Refuse(p) \/ Report(p)
  <2>1. PICK e : job' = [job EXCEPT ![p] = e]
    BY <1>1, Zenon DEF Refuse, Report
  <2> QED
    BY <1>1, <1>a, <2>1, SetFields, Zenon DEF Refuse, Report
<1>2. CASE StartBench(p)
  <2>1. PICK e : job' = [job EXCEPT ![p] = e]
    BY <1>2, Zenon DEF StartBench
  <2> QED
    BY <1>2, <1>a, <2>1, SetFields, Zenon DEF StartBench
<1>3. CASE StartCapture(p)
  <2>1. PICK d : d = Published(run_id(tree))
    BY Zenon
  <2>2. OthersKept(p) /\ \A x \in Dirs \ {d} : fs'[x] = fs[x]
    BY <1>3, <2>1, FilesStarted, Zenon DEF Thinned
  <2>3. job'[p].dir = d
    BY <1>3, <2>1, FilesStarted, Zenon
  <2> QED
    BY <1>b, <2>2, <2>3, Zenon
<1>4. CASE WriteEnvironment(p)
  <2>1. PICK e : job' = [job EXCEPT ![p] = e]
    BY <1>4, Zenon DEF WriteEnvironment
  <2>2. OthersKept(p)
    BY <2>1, SetFields, Zenon
  <2>3. fs' = fs \/ \A x \in Dirs \ {job[p].dir} : fs'[x] = fs[x]
    <3>1. fs' = fs \/ \E D : fs' = [fs EXCEPT ![job[p].dir] = D]
      BY <1>4, Zenon DEF WriteEnvironment, Put
    <3> QED
      BY <3>1, Zenon DEF JobsPlaced
  <2> QED
    BY <1>a, <1>b, <2>2, <2>3, Zenon
<1>5. CASE Build(p)
  BY <1>5, <1>a, BuildFields, ZenonT(60) DEF Build
<1>6. CASE WriteMd(p) \/ WriteRaw(p)
  <2>1. PICK d : d = out_dir(p)
    BY Zenon
  <2>2. OthersKept(p) /\ job'[p].out = d
    BY <1>6, <2>1, OutFields, Zenon
  <2>3. \A x \in Dirs \ {d} : fs'[x] = fs[x]
    BY <1>6, <2>1, FilesWritten, ZenonT(60) DEF Wrote
  <2> QED
    BY <1>b, <2>2, <2>3, Zenon
<1>7. CASE WriteCsv(p) \/ WriteHdr(p) \/ WriteGnuplot(p)
  <2>1. PICK at : Goto(p, at)
    BY <1>7, ZenonT(60) DEF WriteCsv, WriteHdr, WriteGnuplot
  <2>2. OthersKept(p)
    BY <2>1, GotoFields, Zenon
  <2>3. \A x \in Dirs \ {job[p].out} : fs'[x] = fs[x]
    BY <1>7, FilesWritten, ZenonT(60) DEF Wrote
  <2> QED
    BY <1>b, <2>2, <2>3, Zenon
<1>8. CASE ClearHdr(p)
  <2>1. PICK d : d = job[p].out
    BY Zenon
  <2>2. OthersKept(p) /\ \A x \in Dirs \ {d} : fs'[x] = fs[x]
    BY <1>8, <2>1, FilesCleared, ZenonT(60) DEF Thinned
  <2> QED
    BY <1>b, <2>1, <2>2, Zenon
<1>9. CASE ChildFails(p)
  <2>1. PICK d, e : d = job[p].out /\ job' = [job EXCEPT ![p] = e]
    BY <1>9, Zenon DEF ChildFails
  <2>2. OthersKept(p)
    BY <2>1, SetFields, Zenon
  <2>3. fs' = fs \/ \A x \in Dirs \ {d} : fs'[x] = fs[x]
    BY <1>9, <2>1, FilesFailed, ZenonT(60) DEF Wrote
  <2> QED
    BY <1>a, <1>b, <2>1, <2>2, <2>3, Zenon
<1>10. CASE EndPass(p)
  <2>1. PICK d : d = job[p].dir
    BY Zenon
  <2>2. OthersKept(p) /\ (Teed(p, d) \/ Swept(p))
    BY <1>10, <2>1, FilesEnded, Zenon
  <2>3. \A x \in Dirs \ {d, Temp(p)} : fs'[x] = fs[x]
    BY <2>2, Zenon DEF Teed, Swept
  <2> QED
    BY <2>1, <2>2, <2>3, SameAlways, Zenon DEF Frame
<1>11. CASE RenderPlots(p)
  <2>1. PICK d : d = IF job[p].mode = "capture" THEN job[p].dir ELSE out_dir(p)
    BY Zenon
  <2>2. OthersKept(p) /\ \E T : Drew(p, d, T)
    BY <1>11, <2>1, FilesDrawn, Zenon
  <2>3. CASE job[p].mode = "capture"
    BY <1>b, <2>1, <2>2, <2>3, ZenonT(60) DEF Drew
  <2>4. CASE job[p].mode # "capture"
    <3>1. d = Temp(p) \/ (d = Scratch(run_id(tree)) /\ run_id(tree) \in RunIds)
      BY <2>1, <2>4, OutDirIs, Zenon
    <3>2. CASE d = Temp(p)
      BY <1>b, <2>2, <3>2, Zenon DEF Drew
    <3>3. CASE d = Scratch(run_id(tree)) /\ run_id(tree) \in RunIds
      <4>1. d \notin {Published(id) : id \in RunIds}
        BY <3>3, Zenon DEF Scratch, Published
      <4>2. PICK T : Drew(p, d, T)
        BY <2>2, Zenon
      <4>3. \A f \in T : Svg(f)[3] = "svg"
        BY Zenon DEF Svg
      <4>4. SameBut(fs[d], fs'[d])
        BY <4>2, <4>3, SMTT(60), ZenonT(60) DEF Drew, SameBut
      <4> QED
        BY <2>2, <4>1, <4>2, <4>4, SameAlways, Zenon DEF Frame, Drew
    <3> QED
      BY <3>1, <3>2, <3>3, Zenon
  <2> QED
    BY <2>3, <2>4, Zenon
<1>12. CASE Interrupt(p)
  <2>1. PICK e : job' = [job EXCEPT ![p] = e]
    BY <1>12, Zenon DEF Interrupt
  <2>2. OthersKept(p)
    BY <2>1, SetFields, Zenon
  <2>3. \A x \in Dirs \ {Temp(p)} : fs'[x] = fs[x]
    BY <1>12, Zenon DEF Interrupt, JobsPlaced
  <2> QED
    BY <1>b, <2>2, <2>3, Zenon
<1> QED
  BY <1>1, <1>2, <1>3, <1>4, <1>5, <1>6, <1>7, <1>8, <1>9, <1>10, <1>11, <1>12, Zenon DEF Step
-----------------------------------------------------------------------------
\* A job that has begun to write a report, or has just written one.
Reporting(j) == j.at \in AfterMd \/ (j.at = "run" /\ j.ok /\ Head(j.todo).kind \in WritesReport)

\* A job that is not writing a report has nothing to keep.
LEMMA OwnTrivially == ASSUME NEW j, ~Reporting(j), NEW D PROVE Own(j, D)
  BY Zenon DEF Own, Reporting, AfterMd

\* Nobody's plots disturb a report.
LEMMA OwnFrame ==
  ASSUME NEW j, NEW D, NEW E, SameBut(D, E), Own(j, D)
  PROVE  Own(j, E)
<1>1. ASSUME NEW f, f[3] # "svg" PROVE Has(j, D, f) => Has(j, E, f)
  BY <1>1, Zenon DEF Has, SameBut
<1>2. ASSUME NEW exts, "svg" \notin exts PROVE HasAll(j, D, exts) => HasAll(j, E, exts)
  <2>1. \A e \in exts : ReportFile(Head(j.todo).crate, e)[3] # "svg"
    BY <1>2, Zenon DEF ReportFile
  <2> QED
    BY <1>1, <2>1, Zenon DEF HasAll
<1>3. \A f \in Measured(j) : f[3] # "svg"
  BY DEF Measured, Hdr
<1>4. \A c : HdrsIn(D, c) = HdrsIn(E, c)
  BY Zenon DEF HdrsIn, SameBut
<1>5. (\A f \in Measured(j) : Has(j, D, f)) => \A f \in Measured(j) : Has(j, E, f)
  BY <1>1, <1>3, Zenon
<1> QED
  BY <1>2, <1>4, <1>5, ZenonT(60) DEF Own

\* The directory of a report being written is no other process's to touch.
LEMMA ReportingApart ==
  ASSUME JobsPlaced, NEW p \in Procs, NEW q \in Procs \ {p}, Reporting(job[q])
  PROVE  job[q].out \in Dirs /\ job[q].out # Temp(p) /\ job[q].out # NONE
<1>1. Placed(q, job[q]) /\ Head(job[q].todo).kind \in {"latency", "perfstat"}
  BY Zenon DEF JobsPlaced, Placed, Reporting, WritesReport
<1>2. \/ job[q].out = Temp(q) \/ job[q].out \in {Scratch(id) : id \in RunIds}
      \/ job[q].out \in {Published(id) : id \in RunIds}
  BY <1>1, ZenonT(60) DEF Placed, Reporting
<1>3. job[q].out \in Dirs /\ job[q].out # Temp(p)
  BY <1>2, DirsApart DEF Dirs, Temp, Scratch, Published
<1> QED
  BY <1>3, CaptureAssumption, Zenon

\* The job e goes on with the report of j, S added to what its directory had.
Adds(j, e, D, E, S) ==
  /\ \A f : Has(j, D, f) \/ f \in S => Has(e, E, f)
  /\ Measured(e) = Measured(j) /\ e.todo = j.todo
  /\ \A c : HdrsIn(E, c) = HdrsIn(D, c) \union {f \in S : f[2] = c /\ f[3] = "hdr"}

\* Every step of a process keeps what it has written of its report, until it
\* goes on to something else.
LEMMA StepOwn ==
  ASSUME JobsPlaced, NEW p \in Procs, Step(p)
  PROVE  \/ ~Reporting(job'[p])
         \/ /\ Kept(job'[p], job[p])
            /\ Own(job[p], fs[job[p].out]) => Own(job'[p], fs'[job'[p].out])
<1>0. IsJob(job[p])
  BY Zenon DEF JobsPlaced, Placed
<1>d. ASSUME NEW j, j.at \in {"idle", "environment"} \/ j.at = Entry(j.todo) PROVE ~Reporting(j)
  BY <1>d, EntryIs, Zenon DEF Reporting, AfterMd, WritesReport
<1>3. ASSUME Refuse(p) PROVE ~Reporting(job'[p])
  <2>1. job'[p] = Stopped(Started(runs + 1, "refused", NONE, << >>, "idle"), "refused")
    BY <1>3, SetFields, Zenon DEF Refuse
  <2>2. job'[p].at = "idle"
    BY <2>1, StartedFields, StoppedFields
  <2> QED
    BY <1>3, <1>d, <2>2, Zenon
<1>4. ASSUME StartBench(p) PROVE ~Reporting(job'[p])
  <2>1. PICK req \in Requests :
          job' = [job EXCEPT ![p] = EnterPass(Started(runs + 1, "bench", NONE, << >>, NONE), BenchPasses(req))]
    BY <1>4, Zenon DEF StartBench
  <2>2. job'[p] = EnterPass(Started(runs + 1, "bench", NONE, << >>, NONE), BenchPasses(req))
    BY <2>1, SetFields, ZenonT(60)
  <2>3. job'[p].at = Entry(job'[p].todo)
    BY <2>2, StartedFields, EnterPassFields
  <2> QED
    BY <1>4, <1>d, <2>3, Zenon
<1>5. ASSUME StartCapture(p) PROVE ~Reporting(job'[p])
  <2>1. PICK d : d = Published(run_id(tree))
    BY Zenon
  <2>2. job'[p].at \in {"idle", "environment"}
    BY <1>5, <2>1, FilesStarted, Zenon
  <2> QED
    BY <1>5, <1>d, <2>2, Zenon
<1>6. ASSUME WriteEnvironment(p) PROVE ~Reporting(job'[p])
  <2>1. PICK e : job' = [job EXCEPT ![p] = e] /\
                 (e = EnterPass(job[p], job[p].todo) \/ e = Stopped(job[p], "failed"))
    BY <1>6, ZenonT(60) DEF WriteEnvironment
  <2>2. e.at = "idle" \/ e.at = Entry(e.todo)
    BY <1>0, <2>1, EnterPassFields, StoppedFields, SMTT(60)
  <2>3. job'[p] = e
    BY <2>1, SetFields, Zenon
  <2> QED
    BY <1>6, <1>d, <2>2, <2>3, Zenon
<1>7. ASSUME Build(p) PROVE ~Reporting(job'[p])
  BY <1>7, BuildFields, Zenon DEF Reporting, AfterMd, Kept
<1>8. ASSUME WriteRaw(p) PROVE ~Reporting(job'[p])
  <2>1. PICK d : d = out_dir(p)
    BY Zenon
  <2>2. job[p].at = "raw" /\ Head(job[p].todo).kind \in {"cross_core", "alloc"}
    BY <1>8, Zenon DEF WriteRaw, JobsPlaced, Placed
  <2>3. Kept(job'[p], job[p]) /\ job'[p].at = "run"
    BY <1>8, <2>1, <2>2, OutFields, ZenonT(60)
  <2>4. ~Reporting(job'[p])
    BY <2>2, <2>3, Zenon DEF Reporting, AfterMd, Kept, WritesReport
  <2> QED
    BY <1>8, <2>4, Zenon
<1>9. ASSUME NEW ok \in BOOLEAN, job' = [job EXCEPT ![p] = PassDone(job[p], ok)] PROVE ~Reporting(job'[p])
  <2>1. job'[p] = PassDone(job[p], ok)
    BY <1>9, SetFields, Zenon
  <2>2. job'[p].at = "idle" \/ job'[p].at = Entry(job'[p].todo)
    BY <1>0, <2>1, PassDoneFields
  <2> QED
    BY <1>9, <1>d, <2>2, Zenon
<1>10. ASSUME ChildFails(p) PROVE ~Reporting(job'[p])
  <2>1. CASE job[p].at = "build"
    <3>1. PICK ok \in BOOLEAN : job' = [job EXCEPT ![p] = PassDone(job[p], ok)]
      BY <1>10, <2>1, Zenon DEF ChildFails
    <3> QED
      BY <1>9, <1>10, <3>1, Zenon
  <2>2. CASE job[p].at # "build"
    <3> DEFINE e == [job[p] EXCEPT !.at = "run", !.ok = FALSE]
    <3>1. job' = [job EXCEPT ![p] = e]
      BY <1>10, <2>2, Zenon DEF ChildFails
    <3>2. e.at = "run" /\ ~e.ok
      BY <1>0, FailFields, Zenon
    <3> HIDE DEF e
    <3>3. job'[p] = e
      BY <3>1, SetFields, Zenon
    <3>4. ~Reporting(job'[p])
      BY <3>2, <3>3, Zenon DEF Reporting, AfterMd
    <3> QED
      BY <1>10, <3>4, Zenon
  <2> QED
    BY <2>1, <2>2, Zenon
<1>11. ASSUME EndPass(p) PROVE ~Reporting(job'[p])
  <2>1. \/ job' = [job EXCEPT ![p] = PassDone(job[p], job[p].ok)]
        \/ job' = [job EXCEPT ![p] = PassDone(job[p], FALSE)]
    BY <1>11, Zenon DEF EndPass
  <2>2. PassDone(job[p], job[p].ok) \in {PassDone(job[p], TRUE), PassDone(job[p], FALSE)}
    BY Zenon DEF PassDone, Failure
  <2>3. PICK ok \in BOOLEAN : job' = [job EXCEPT ![p] = PassDone(job[p], ok)]
    BY <2>1, <2>2, Zenon
  <2> QED
    BY <1>9, <1>11, <2>3, Zenon
<1>12. ASSUME RenderPlots(p) PROVE ~Reporting(job'[p])
  <2>1. PICK ok \in BOOLEAN : job' = [job EXCEPT ![p] = PassDone(job[p], ok)]
    BY <1>12, Zenon DEF RenderPlots
  <2> QED
    BY <1>9, <1>12, <2>1, Zenon
<1>13. ASSUME Report(p) \/ Interrupt(p) PROVE ~Reporting(job'[p])
  <2>1. PICK result : job' = [job EXCEPT ![p] = Stopped(job[p], result)]
    BY <1>13, Zenon DEF Report, Interrupt
  <2>2. job'[p] = Stopped(job[p], result)
    BY <2>1, SetFields, ZenonT(60)
  <2>3. job'[p].at = "idle"
    BY <1>0, <2>2, StoppedFields
  <2> QED
    BY <1>13, <1>d, <2>3, Zenon
\* The steps of write_run.
<1>e. ASSUME NEW d, NEW S, Wrote(d, S, Stamp(p)), Kept(job'[p], job[p]),
             job'[p].built = job[p].built
      PROVE  Adds(job[p], job'[p], fs[d], fs'[d], S)
  <2>0. PICK j, e, D, E : j = job[p] /\ e = job'[p] /\ D = fs[d] /\ E = fs'[d]
    BY Zenon
  <2>1. e.run = j.run /\ e.todo = j.todo /\ e.built = j.built
    BY <1>e, <2>0, Zenon DEF Kept
  <2>2. /\ DOMAIN E = S \union DOMAIN D /\ \A f \in S : E[f] = StampOf(j)
        /\ \A f \in DOMAIN D \ S : E[f] = D[f]
    BY <1>e, <2>0, Zenon DEF Wrote, Stamp, StampOf, Now
  <2>3. StampOf(e) = StampOf(j) /\ Measured(e) = Measured(j)
    BY <2>1, ZenonT(60) DEF StampOf, Measured
  <2>4. \A f : Has(j, D, f) \/ f \in S => Has(e, E, f)
    BY <2>2, <2>3, Zenon DEF Has
  <2>5. \A c : HdrsIn(E, c) = HdrsIn(D, c) \union {f \in S : f[2] = c /\ f[3] = "hdr"}
    BY <2>2, Zenon DEF HdrsIn
  <2>6. Adds(j, e, D, E, S)
    BY <2>1, <2>3, <2>4, <2>5, Zenon DEF Adds
  <2> QED
    BY <2>0, <2>6, Zenon
<1>14. ASSUME WriteMd(p) PROVE Own(job'[p], fs'[job'[p].out])
  <2>1. PICK d, S, j, e, D, E :
          /\ d = out_dir(p) /\ S = {ReportFile(Now(p).crate, "md")}
          /\ j = job[p] /\ e = job'[p] /\ D = fs[d] /\ E = fs'[d]
    BY Zenon
  <2>2. /\ Kept(job'[p], job[p]) /\ job'[p].built = job[p].built
        /\ e.at = "csv" /\ e.out = d /\ Wrote(d, S, Stamp(p))
    BY <1>14, <2>1, OutFields, FilesWritten, Zenon DEF WriteMd
  <2>a. Adds(j, e, D, E, S)
    BY <1>e, <2>1, <2>2, Zenon
  <2>3. e.todo = j.todo /\ \A f : Has(j, D, f) \/ f \in S => Has(e, E, f)
    BY <2>a, Zenon DEF Adds
  <2>4. HasAll(e, E, {"md"})
    BY <2>1, <2>3, Zenon DEF HasAll, Now
  <2>5. Own(e, E)
    BY <2>2, <2>4, ZenonT(60) DEF Own
  <2> QED
    BY <1>14, <2>1, <2>2, <2>5, ZenonT(60)
<1>15. ASSUME WriteCsv(p), Own(job[p], fs[job[p].out])
      PROVE  Own(job'[p], fs'[job'[p].out])
  <2>1. PICK d, S, j, e, D, E :
          /\ d = job[p].out /\ S = {ReportFile(Now(p).crate, "csv")}
          /\ j = job[p] /\ e = job'[p] /\ D = fs[d] /\ E = fs'[d]
    BY Zenon
  <2>2. /\ Kept(job'[p], job[p]) /\ job'[p].built = job[p].built
        /\ j.at = "csv" /\ e.at = "clear_hdr" /\ e.out = d /\ Wrote(d, S, Stamp(p))
    BY <1>15, <2>1, GotoFields, FilesWritten, ZenonT(60) DEF WriteCsv
  <2>a. Adds(j, e, D, E, S)
    BY <1>e, <2>1, <2>2, Zenon
  <2>3. e.todo = j.todo /\ \A f : Has(j, D, f) \/ f \in S => Has(e, E, f)
    BY <2>a, Zenon DEF Adds
  <2>4. HasAll(j, D, {"md"})
    BY <1>15, <2>1, <2>2, Zenon DEF Own
  <2>5. HasAll(e, E, {"md", "csv"})
    BY <2>1, <2>3, <2>4, ZenonT(60) DEF HasAll, Now
  <2>6. Own(e, E)
    BY <2>2, <2>5, ZenonT(60) DEF Own
  <2> QED
    BY <1>15, <2>1, <2>2, <2>6, ZenonT(60)
<1>16. ASSUME ClearHdr(p), Own(job[p], fs[job[p].out])
      PROVE  Own(job'[p], fs'[job'[p].out])
  <2>1. PICK d, j, e, D, E :
          d = job[p].out /\ j = job[p] /\ e = job'[p] /\ D = fs[d] /\ E = fs'[d]
    BY Zenon
  <2>2. PICK gone \in SUBSET HdrFiles(d, Now(p).crate) : ClearedTo(p, d, gone)
    BY <1>16, <2>1, FilesCleared, ZenonT(60)
  <2>3. /\ Thinned(d) /\ Kept(job'[p], job[p]) /\ job'[p].at = "hdr"
        /\ job'[p].built = job[p].built /\ job'[p].out = job[p].out
    BY <1>16, <2>1, FilesCleared, ZenonT(60)
  <2>4. HasAll(j, D, {"md", "csv"})
    BY <1>16, <2>1, Zenon DEF Own, ClearHdr
  <2>5. StampOf(e) = StampOf(j) /\ e.todo = j.todo
    BY <2>1, <2>3, ZenonT(60) DEF Kept, StampOf
  <2>6. \A x \in {"md", "csv"} : ReportFile(Head(j.todo).crate, x) \notin gone
    BY <2>1, <2>2, ZenonT(60) DEF ReportFile, HdrFiles
  <2>7. HasAll(e, E, {"md", "csv"})
    <3>1. DOMAIN E = DOMAIN D \ gone /\ \A f \in DOMAIN E : E[f] = D[f]
      BY <2>1, <2>2, <2>3, ZenonT(60) DEF ClearedTo, Thinned
    <3> QED
      BY <2>4, <2>5, <2>6, <3>1, ZenonT(60) DEF HasAll, Has
  <2>8. e.cleared => HdrsIn(E, Head(e.todo).crate) = {}
    BY <2>1, <2>2, <2>5, Zenon DEF HdrsIn, HdrFiles, Now, ClearedTo
  <2>9. Own(e, E)
    BY <2>1, <2>3, <2>7, <2>8, ZenonT(60) DEF Own
  <2> QED
    BY <1>16, <2>1, <2>3, <2>9, Zenon
<1>17. ASSUME WriteHdr(p), Own(job[p], fs[job[p].out])
      PROVE  Own(job'[p], fs'[job'[p].out])
  <2>1. PICK d, S, j, e, D, E :
          /\ d = job[p].out /\ S = Measured(job[p])
          /\ j = job[p] /\ e = job'[p] /\ D = fs[d] /\ E = fs'[d]
    BY ZenonT(60)
  <2>2. /\ Kept(job'[p], job[p]) /\ job'[p].built = job[p].built /\ e.cleared = j.cleared
        /\ j.at = "hdr" /\ e.at = "gnuplot" /\ e.out = d /\ Wrote(d, S, Stamp(p))
    BY <1>17, <2>1, GotoFields, FilesWritten, ZenonT(60) DEF WriteHdr
  <2>3. /\ \A f : Has(j, D, f) \/ f \in S => Has(e, E, f)
        /\ Measured(e) = Measured(j) /\ e.todo = j.todo
        /\ \A c : HdrsIn(E, c) = HdrsIn(D, c) \union {f \in S : f[2] = c /\ f[3] = "hdr"}
    <3>1. Adds(j, e, D, E, S)
      BY <1>e, <2>1, <2>2, Zenon
    <3> QED
      BY <3>1, Zenon DEF Adds
  <2>4. HasAll(j, D, {"md", "csv"}) /\ (j.cleared => HdrsIn(D, Head(j.todo).crate) = {})
    BY <1>17, <2>1, <2>2, Zenon DEF Own
  <2>5. HasAll(e, E, {"md", "csv"}) /\ \A f \in Measured(e) : Has(e, E, f)
    BY <2>1, <2>3, <2>4, ZenonT(60) DEF HasAll
  <2>6. \A f \in S : f[2] = Head(j.todo).crate /\ f[3] = "hdr"
    BY <2>1 DEF Measured, Hdr
  <2>a. {f \in S : f[2] = Head(j.todo).crate /\ f[3] = "hdr"} = S
    BY <2>6, Zenon
  <2>7. e.cleared => HdrsIn(E, Head(e.todo).crate) = Measured(e)
    <3>1. HdrsIn(E, Head(e.todo).crate) = HdrsIn(D, Head(j.todo).crate) \union S
      BY <2>3, <2>a, Zenon
    <3> QED
      BY <2>1, <2>2, <2>3, <2>4, <3>1, ZenonT(60)
  <2>8. Own(e, E)
    BY <2>2, <2>5, <2>7, ZenonT(60) DEF Own
  <2> QED
    BY <1>17, <2>1, <2>2, <2>8, ZenonT(60)
<1>18. ASSUME WriteGnuplot(p), Own(job[p], fs[job[p].out])
      PROVE  Own(job'[p], fs'[job'[p].out])
  <2>1. PICK d, S, j, e, D, E :
          /\ d = job[p].out /\ S = {ReportFile(Now(p).crate, "gnuplot")}
          /\ j = job[p] /\ e = job'[p] /\ D = fs[d] /\ E = fs'[d]
    BY Zenon
  <2>2. /\ Kept(job'[p], job[p]) /\ job'[p].built = job[p].built /\ e.cleared = j.cleared
        /\ j.at = "gnuplot" /\ e.at = "run" /\ e.out = d /\ Wrote(d, S, Stamp(p))
    BY <1>18, <2>1, GotoFields, FilesWritten, ZenonT(60) DEF WriteGnuplot
  <2>3. /\ \A f : Has(j, D, f) \/ f \in S => Has(e, E, f)
        /\ Measured(e) = Measured(j) /\ e.todo = j.todo
        /\ \A c : HdrsIn(E, c) = HdrsIn(D, c) \union {f \in S : f[2] = c /\ f[3] = "hdr"}
    <3>1. Adds(j, e, D, E, S)
      BY <1>e, <2>1, <2>2, Zenon
    <3> QED
      BY <3>1, Zenon DEF Adds
  <2>4. /\ HasAll(j, D, {"md", "csv"}) /\ \A f \in Measured(j) : Has(j, D, f)
        /\ j.cleared => HdrsIn(D, Head(j.todo).crate) = Measured(j)
    BY <1>18, <2>1, <2>2, Zenon DEF Own
  <2>5. \A f \in Measured(e) : Has(e, E, f)
    BY <2>3, <2>4, Zenon
  <2>6. HasAll(e, E, {"md", "csv", "gnuplot"})
    BY <2>1, <2>3, <2>4, ZenonT(60) DEF HasAll, Now
  <2>7. \A f \in S : f[3] # "hdr"
    BY <2>1, SMTT(60) DEF ReportFile
  <2>8. e.cleared => HdrsIn(E, Head(e.todo).crate) = Measured(e)
    BY <2>2, <2>3, <2>4, <2>7, ZenonT(60)
  <2>9. Own(e, E)
    BY <2>2, <2>5, <2>6, <2>8, Zenon DEF Own
  <2> QED
    BY <1>18, <2>1, <2>2, <2>9, ZenonT(60)
<1>19. ASSUME WriteMd(p) \/ WriteCsv(p) \/ ClearHdr(p) \/ WriteHdr(p) \/ WriteGnuplot(p)
       PROVE  Kept(job'[p], job[p])
  <2>1. CASE WriteMd(p)
    BY <2>1, OutFields, Zenon
  <2>2. CASE ClearHdr(p)
    BY <2>2, FilesCleared, Zenon
  <2>3. CASE WriteCsv(p) \/ WriteHdr(p) \/ WriteGnuplot(p)
    <3>1. PICK at : Goto(p, at)
      BY <2>3, ZenonT(60) DEF WriteCsv, WriteHdr, WriteGnuplot
    <3> QED
      BY <3>1, GotoFields, Zenon
  <2> QED
    BY <1>19, <2>1, <2>2, <2>3, Zenon
<1> QED
  BY <1>3, <1>4, <1>5, <1>6, <1>7, <1>8, <1>10, <1>11, <1>12, <1>13, <1>14, <1>15, <1>16, <1>17, <1>18, <1>19, ZenonT(60)
  DEF Step

\* Every step keeps what processes in separate directories have written of
\* their reports.
LEMMA NextOwn == JobsPlaced /\ JobsOwn /\ Separate /\ Separate' /\ [Next]_vars => JobsOwn'
<1> SUFFICES ASSUME JobsPlaced, JobsOwn, Separate, Separate', [Next]_vars PROVE JobsOwn'
  BY Zenon
<1>1. CASE UNCHANGED vars
  BY <1>1, Zenon DEF vars, JobsOwn
<1>2. CASE EditTree
  BY <1>2, Zenon DEF EditTree, JobsOwn
<1>3. ASSUME NEW p \in Procs, Step(p) PROVE JobsOwn'
  <2>0. Own(job'[p], fs'[job'[p].out])
    BY <1>3, StepOwn, OwnTrivially, Zenon DEF JobsOwn
  <2> SUFFICES ASSUME NEW q \in Procs \ {p} PROVE Own(job'[q], fs'[job'[q].out])
    BY <2>0, Zenon DEF JobsOwn
  <2>1. Frame(p) /\ job'[q] = job[q]
    BY <1>3, StepFrame, Zenon DEF Frame, OthersKept
  <2>2. CASE ~Reporting(job[q])
    BY <2>1, <2>2, OwnTrivially, Zenon
  <2>3. CASE Reporting(job[q])
    <3>1. PICK x : x = job[q].out
      BY Zenon
    <3>2. x \in Dirs /\ x # Temp(p) /\ x # NONE
      BY <2>3, <3>1, ReportingApart, Zenon
    <3>3. x \notin {job[p].dir, job[p].out, job'[p].dir, job'[p].out}
      BY <2>1, <3>1, <3>2, Zenon DEF Separate, Uses
    <3>4. SameBut(fs[x], fs'[x])
      BY <2>1, <3>2, <3>3, ZenonT(60) DEF Frame
    <3>5. Own(job[q], fs[x])
      BY <3>1, Zenon DEF JobsOwn
    <3> QED
      BY <2>1, <3>1, <3>4, <3>5, OwnFrame, Zenon
  <2> QED
    BY <2>2, <2>3, Zenon
<1> QED
  BY <1>1, <1>2, <1>3, Zenon DEF Next, Step

\* When write_run has returned, the report's files are one set: written by this
\* process, with an .hdr for every scenario it measured, and none left from an
\* earlier run unless remove_dir_all failed.  Other processes may run, and plot,
\* but not work in the same directory.
THEOREM ReportSetsAreWhole == Spec /\ []Separate => []ReportSetIsWhole
<1>1. Init => JobsPlaced /\ JobsOwn
  <2> SUFFICES ASSUME Init, NEW p \in Procs PROVE Own(job[p], fs[job[p].out])
    BY InitPlaced, Zenon DEF JobsOwn
  <2>1. ~Reporting(job[p])
    BY Zenon DEF Init, NoJob, Reporting, AfterMd
  <2> QED
    BY <2>1, OwnTrivially, Zenon
<1>2. JobsPlaced /\ JobsOwn /\ Separate /\ Separate' /\ [Next]_vars => (JobsPlaced /\ JobsOwn)'
  BY NextPlaced, NextOwn, Zenon
<1>3. JobsOwn => ReportSetIsWhole
  <2> SUFFICES ASSUME JobsOwn, NEW p \in Procs, job[p].at = "run", job[p].ok,
                      Now(p).kind \in {"latency", "perfstat"}
               PROVE  LET d == job[p].out
                          c == Now(p).crate
                          measured == {Hdr(c, l) : l \in Scenarios[job[p].built]}
                      IN  /\ job[p].cleared => HdrFiles(d, c) = measured
                          /\ \A f \in measured \union {ReportFile(c, e) : e \in {"md", "csv", "gnuplot"}} :
                               f \in DOMAIN fs[d] /\ fs[d][f] = Stamp(p)
    BY ZenonT(60) DEF ReportSetIsWhole
  <2>1. PICK j, D : j = job[p] /\ D = fs[job[p].out]
    BY Zenon
  <2>2. /\ HasAll(j, D, {"md", "csv", "gnuplot"})
        /\ \A f \in Measured(j) : Has(j, D, f)
        /\ j.cleared => HdrsIn(D, Head(j.todo).crate) = Measured(j)
    BY <2>1, ZenonT(60) DEF JobsOwn, Own, WritesReport, Now
  <2>3. Measured(j) = {Hdr(Now(p).crate, l) : l \in Scenarios[job[p].built]} /\ StampOf(j) = Stamp(p)
    BY <2>1, ZenonT(60) DEF Measured, Now, StampOf, Stamp
  <2>4. HdrFiles(job[p].out, Now(p).crate) = HdrsIn(D, Head(j.todo).crate)
    BY <2>1, ZenonT(60) DEF HdrFiles, HdrsIn, Now
  <2>5. \A e \in {"md", "csv", "gnuplot"} : Has(j, D, ReportFile(Now(p).crate, e))
    BY <2>1, <2>2, ZenonT(60) DEF HasAll, Now
  <2> QED
    BY <2>1, <2>2, <2>3, <2>4, <2>5, ZenonT(60) DEF Has
<1> QED
  BY <1>1, <1>2, <1>3, PTL DEF Spec
=============================================================================
