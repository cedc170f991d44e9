------------------------- MODULE CaptureRunProofs --------------------------
(***************************************************************************)
(* Proofs about whole captures, any number of them at once: that a capture *)
(* directory holds one run, and that a capture that says it succeeded has  *)
(* everything it should.  Both are said of directories that were cleared   *)
(* and in which no capture was started while another ran (Sole); why that  *)
(* is enough is that such a directory has one claimant, and the other      *)
(* processes, which may run and capture elsewhere, leave it alone.         *)
(***************************************************************************)
EXTENDS CaptureProofs

Running(j) == j.mode = "capture" /\ j.at # "idle"

\* A capture that is running or has succeeded.
Live(j) == j.mode = "capture" /\ (j.at # "idle" \/ j.result = "ok")

\* Invocations are numbered, and no two captures have one number.
RunsApart ==
  /\ runs \in Nat
  /\ \A p \in Procs : job[p].run \in 0 .. runs
  /\ \A p, q \in Procs : p # q /\ job[p].mode = "capture" /\ job[q].mode = "capture" => job[p].run # job[q].run

\* A capture that runs in a sole directory is the one that claims it.
Claims ==
  /\ claim = [d \in PublishedDirs |-> claim[d]]
  /\ \A p \in Procs : Running(job[p]) /\ Sole(job[p].dir) => claim[job[p].dir].run = job[p].run

\* p's capture is running or has succeeded, and its directory is its own.
Held(p) == Live(job[p]) /\ Sole(job[p].dir) /\ claim[job[p].dir].run = job[p].run

\* That directory holds no other run's files.
SoleRun == \A p \in Procs : Held(p) =>
  \A f \in DOMAIN fs[job[p].dir] : fs[job[p].dir][f].run = job[p].run

\* What a latency pass has written of its report is there.
HeldOwn == \A p \in Procs :
  Held(p) /\ Reporting(job[p]) /\ Head(job[p].todo).kind = "latency" => Own(job[p], fs[job[p].out])

\* What a pass that succeeded has put into the capture directory D.
Made(pass, D) ==
  /\ pass.kind # "plots" => PassFile(pass, "txt") \in DOMAIN D
  /\ pass.kind = "latency" =>
       /\ \A e \in {"md", "csv", "gnuplot"} : ReportFile(pass.crate, e) \in DOMAIN D
       /\ HdrsIn(D, pass.crate) # {}
  /\ pass.kind = "cross_core" => PassFile(pass, "raw") \in DOMAIN D
  /\ pass.kind = "plots" =>
       \A f \in DOMAIN D : f[3] = "gnuplot" \/ (f[1] = "cross_core" /\ f[3] = "raw") => Svg(f) \in DOMAIN D

\* How far a running capture has got.
Progress(j, D) ==
  /\ j.at # "environment" => Environment \in DOMAIN D
  /\ ~j.failed => \A i \in 1 .. Done(j) : Made(CapturePasses[i], D)
  /\ j.at = "run" /\ j.ok /\ Head(j.todo).kind = "cross_core" => PassFile(Head(j.todo), "raw") \in DOMAIN D

\* D holds everything a capture makes.
Complete(D) ==
  /\ Environment \in DOMAIN D
  /\ \A i \in DOMAIN CapturePasses : Made(CapturePasses[i], D)

CapturesProgress ==
  \A p \in Procs : Held(p) =>
    /\ job[p].at # "idle" => Progress(job[p], fs[job[p].dir])
    /\ job[p].result = "ok" => Complete(fs[job[p].dir]) /\ job[p].at = "idle"
-----------------------------------------------------------------------------
\* An invocation in progress keeps its mode, its number and its directory.
LEMMA JobStays ==
  ASSUME JobsPlaced, NEW p \in Procs, Step(p), job[p].at # "idle"
  PROVE  job'[p].mode = job[p].mode /\ job'[p].run = job[p].run /\ job'[p].dir = job[p].dir
<1>0. IsJob(job[p])
  BY Zenon DEF JobsPlaced, Placed
<1>1. ~(Refuse(p) \/ StartBench(p) \/ StartCapture(p))
  BY Zenon DEF Refuse, StartBench, StartCapture, CanStart
<1>a. ASSUME NEW ok \in BOOLEAN, job' = [job EXCEPT ![p] = PassDone(job[p], ok)]
      PROVE  job'[p].mode = job[p].mode /\ job'[p].run = job[p].run /\ job'[p].dir = job[p].dir
  <2>1. job'[p] = PassDone(job[p], ok)
    BY <1>a, SetFields, Zenon
  <2> QED
    BY <1>0, <2>1, PassDoneFields
<1>2. CASE WriteEnvironment(p)
  <2>1. PICK e : job' = [job EXCEPT ![p] = e] /\
                 (e = EnterPass(job[p], job[p].todo) \/ e = Stopped(job[p], "failed"))
    BY <1>2, ZenonT(60) DEF WriteEnvironment
  <2>2. e.mode = job[p].mode /\ e.run = job[p].run /\ e.dir = job[p].dir
    BY <1>0, <2>1, EnterPassFields, StoppedFields
  <2> QED
    BY <2>1, <2>2, SetFields, Zenon
<1>3. CASE Build(p)
  BY <1>3, BuildFields, Zenon DEF Kept
<1>4. CASE WriteMd(p) \/ WriteRaw(p)
  <2>1. PICK d : d = out_dir(p)
    BY Zenon
  <2> QED
    BY <1>4, <2>1, OutFields, ZenonT(60) DEF Kept
<1>5. CASE WriteCsv(p) \/ WriteHdr(p) \/ WriteGnuplot(p)
  <2>1. PICK at : Goto(p, at)
    BY <1>5, ZenonT(60) DEF WriteCsv, WriteHdr, WriteGnuplot
  <2> QED
    BY <2>1, GotoFields, ZenonT(60) DEF Kept
<1>6. CASE ClearHdr(p)
  <2>1. PICK d : d = job[p].out
    BY Zenon
  <2> QED
    BY <1>6, <2>1, FilesCleared, ZenonT(60) DEF Kept
<1>7. CASE ChildFails(p)
  <2>1. CASE job[p].at = "build"
    <3>1. PICK ok \in BOOLEAN : job' = [job EXCEPT ![p] = PassDone(job[p], ok)]
      BY <1>7, <2>1, Zenon DEF ChildFails
    <3> QED
      BY <1>a, <3>1, Zenon
  <2>2. CASE job[p].at # "build"
    <3> DEFINE e == [job[p] EXCEPT !.at = "run", !.ok = FALSE]
    <3>1. job' = [job EXCEPT ![p] = e]
      BY <1>7, <2>2, Zenon DEF ChildFails
    <3>2. Kept(e, job[p])
      BY <1>0, FailFields, Zenon
    <3> HIDE DEF e
    <3>3. job'[p] = e
      BY <3>1, SetFields, Zenon
    <3> QED
      BY <3>2, <3>3, Zenon DEF Kept
  <2> QED
    BY <2>1, <2>2, Zenon
<1>8. CASE EndPass(p)
  <2>1. \/ job' = [job EXCEPT ![p] = PassDone(job[p], job[p].ok)]
        \/ job' = [job EXCEPT ![p] = PassDone(job[p], FALSE)]
    BY <1>8, Zenon DEF EndPass
  <2>2. PassDone(job[p], job[p].ok) \in {PassDone(job[p], TRUE), PassDone(job[p], FALSE)}
    BY Zenon DEF PassDone, Failure
  <2>3. PICK ok \in BOOLEAN : job' = [job EXCEPT ![p] = PassDone(job[p], ok)]
    BY <2>1, <2>2, Zenon
  <2> QED
    BY <1>a, <2>3, Zenon
<1>9. CASE RenderPlots(p)
  <2>1. PICK ok \in BOOLEAN : job' = [job EXCEPT ![p] = PassDone(job[p], ok)]
    BY <1>9, Zenon DEF RenderPlots
  <2> QED
    BY <1>a, <2>1, Zenon
<1>10. CASE Report(p) \/ Interrupt(p)
  <2>1. PICK result : job' = [job EXCEPT ![p] = Stopped(job[p], result)]
    BY <1>10, Zenon DEF Report, Interrupt
  <2>2. job'[p] = Stopped(job[p], result)
    BY <2>1, SetFields, ZenonT(60)
  <2> QED
    BY <1>0, <2>2, StoppedFields
<1> QED
  BY <1>1, <1>2, <1>3, <1>4, <1>5, <1>6, <1>7, <1>8, <1>9, <1>10, ZenonT(60) DEF Step

\* p's capture works in x: files go, and those that come are of p's run.
Captured(p, x) ==
  /\ job[p].mode = "capture" /\ job[p].at # "idle" /\ x = job[p].dir
  /\ \A f \in DOMAIN fs'[x] :
       (f \in DOMAIN fs[x] /\ fs'[x][f] = fs[x][f]) \/ fs'[x][f].run = job[p].run

\* A capture directory is cleared by the capture that starts, written by the
\* one that owns it, and left alone by everything else.
LEMMA PublishedStep ==
  ASSUME JobsPlaced, NEW p \in Procs, Step(p), NEW x \in PublishedDirs
  PROVE  \/ fs'[x] = fs[x]
         \/ StartCapture(p) /\ x = job'[p].dir /\ Thinned(x)
         \/ Captured(p, x)
<1>0. /\ Placed(p, job[p]) /\ IsJob(job[p]) /\ x \in Dirs
      /\ \A id \in RunIds : x # Scratch(id)
      /\ x # Temp(p)
  BY DirsApart, ZenonT(60) DEF JobsPlaced, Placed, PublishedDirs
<1>1. Stamp(p).run = job[p].run
  BY Zenon DEF Stamp
<1>a. ASSUME NEW d, NEW S, NEW st, Wrote(d, S, st), st.run = job[p].run, job[p].at # "idle",
             d = x => job[p].mode = "capture" /\ d = job[p].dir
      PROVE  fs'[x] = fs[x] \/ Captured(p, x)
  BY <1>0, <1>a, ZenonT(60) DEF Wrote, Captured
<1>b. ASSUME NEW d, NEW S, Wrote(d, S, Stamp(p)), job[p].at # "idle",
             d = x => job[p].mode = "capture" /\ d = job[p].dir
      PROVE  fs'[x] = fs[x] \/ Captured(p, x)
  <2>1. PICK st : st = Stamp(p)
    BY Zenon
  <2>2. Wrote(d, S, st)
    BY <1>b, <2>1, ZenonT(60)
  <2>3. st.run = job[p].run
    BY <1>1, <2>1, ZenonT(60)
  <2> QED
    BY <1>a, <1>b, <2>2, <2>3, Zenon
<1>c. ASSUME NEW d, d = out_dir(p), job[p].at \in {"md", "raw"}
      PROVE  d = x => job[p].mode = "capture" /\ d = job[p].dir
  BY <1>0, <1>c, OutDirIs, Zenon
<1>d. ASSUME NEW d, d = job[p].out, job[p].at \in AfterMd
      PROVE  d = x => job[p].mode = "capture" /\ d = job[p].dir
  BY <1>0, <1>d, Zenon DEF Placed, WritesReport
<1>2. CASE Refuse(p) \/ StartBench(p) \/ Build(p) \/ Report(p)
  BY <1>2, Zenon DEF Refuse, StartBench, Build, Report
<1>3. CASE StartCapture(p)
  <2>1. PICK d : d = Published(run_id(tree))
    BY Zenon
  <2>2. Thinned(d)
    BY <1>3, <2>1, FilesStarted, Zenon
  <2>3. job'[p].dir = d
    BY <1>3, <2>1, FilesStarted, Zenon
  <2> QED
    BY <1>0, <1>3, <2>2, <2>3, Zenon DEF Thinned
<1>4. CASE WriteEnvironment(p)
  <2>0. job[p].at = "environment" /\ job[p].mode = "capture"
    BY <1>0, <1>4, ZenonT(60) DEF WriteEnvironment, Placed
  <2>1. PICK d, st : d = job[p].dir /\ st = [run |-> job[p].run, pass |-> "environment"]
    BY ZenonT(60)
  <2>2. fs' = fs \/ fs' = Put(d, {Environment}, st)
    BY <1>4, <2>1, Zenon DEF WriteEnvironment
  <2>3. d \in Dirs
    BY <1>0, <2>0, <2>1, Zenon DEF Placed, Dirs
  <2>4. fs' = fs \/ Wrote(d, {Environment}, st)
    BY <2>2, <2>3, PutWrote, Zenon
  <2>5. st.run = job[p].run /\ job[p].at # "idle" /\ d = job[p].dir
    BY <2>0, <2>1, ZenonT(60)
  <2> QED
    BY <1>a, <2>0, <2>4, <2>5, Zenon
<1>5. CASE WriteMd(p) \/ WriteRaw(p)
  <2>1. PICK d : d = out_dir(p)
    BY Zenon
  <2>2. job[p].at \in {"md", "raw"} /\ job[p].at # "idle"
    BY <1>5, ZenonT(60) DEF WriteMd, WriteRaw
  <2>3. fs' = fs \/ \E S : Wrote(d, S, Stamp(p))
    BY <1>5, <2>1, FilesWritten, ZenonT(60)
  <2>4. d = x => job[p].mode = "capture" /\ d = job[p].dir
    BY <1>c, <2>1, <2>2, Zenon
  <2> QED
    BY <1>b, <2>2, <2>3, <2>4, ZenonT(60)
<1>6. CASE WriteCsv(p) \/ WriteHdr(p) \/ WriteGnuplot(p)
  <2>1. PICK d : d = job[p].out
    BY Zenon
  <2>2. (\E S : Wrote(d, S, Stamp(p))) /\ job[p].at \in AfterMd
    BY <1>6, <2>1, FilesWritten, Zenon DEF WriteCsv, WriteHdr, WriteGnuplot, AfterMd
  <2>3. job[p].at # "idle"
    BY <2>2, Zenon DEF AfterMd
  <2> QED
    BY <1>b, <1>d, <2>1, <2>2, <2>3, Zenon
<1>7. CASE ClearHdr(p)
  <2>1. PICK d : d = job[p].out
    BY Zenon
  <2>2. Thinned(d) /\ job[p].at \in AfterMd /\ job[p].at # "idle"
    BY <1>7, <2>1, FilesCleared, ZenonT(60) DEF ClearHdr, AfterMd
  <2> QED
    BY <1>0, <1>d, <2>1, <2>2, Zenon DEF Thinned, Captured
<1>8. CASE ChildFails(p)
  <2>1. PICK d : d = job[p].out
    BY Zenon
  <2>2. fs' = fs \/ ((\E S : Wrote(d, S, Stamp(p))) /\ job[p].at \in AfterMd /\ job[p].at # "idle")
    BY <1>8, <2>1, FilesFailed, ZenonT(60) DEF AfterMd
  <2> QED
    BY <1>b, <1>d, <2>1, <2>2, Zenon
<1>9. CASE EndPass(p)
  <2>1. PICK d : d = job[p].dir
    BY Zenon
  <2>2. (job[p].mode = "capture" /\ Teed(p, d)) \/ Swept(p)
    BY <1>9, <2>1, FilesEnded, ZenonT(60)
  <2>3. job[p].at # "idle"
    BY <1>9, Zenon DEF EndPass
  <2>4. PICK st : st = Stamp(p) /\ st.run = job[p].run
    BY <1>1, Zenon
  <2>5. ASSUME Teed(p, d), job[p].mode = "capture" PROVE fs'[x] = fs[x] \/ Captured(p, x)
    BY <1>0, <2>1, <2>3, <2>4, <2>5, ZenonT(60) DEF Teed, Captured
  <2>6. Swept(p) => fs'[x] = fs[x]
    BY <1>0, ZenonT(60) DEF Swept
  <2> QED
    BY <2>2, <2>5, <2>6, Zenon
<1>10. CASE RenderPlots(p)
  <2>1. PICK d : d = IF job[p].mode = "capture" THEN job[p].dir ELSE out_dir(p)
    BY Zenon
  <2>2. PICK drawn : Drew(p, d, drawn)
    BY <1>10, <2>1, FilesDrawn, ZenonT(60)
  <2>3. job[p].at # "idle"
    BY <1>10, Zenon DEF RenderPlots
  <2>4. d = x => job[p].mode = "capture" /\ d = job[p].dir
    BY <1>0, <2>1, OutDirIs, ZenonT(60)
  <2>5. \A f \in DOMAIN fs'[d] : (f \in DOMAIN fs[d] /\ fs'[d][f] = fs[d][f]) \/ fs'[d][f].run = job[p].run
    BY <2>2, ZenonT(60) DEF Drew
  <2>6. d # x => fs'[x] = fs[x]
    BY <1>0, <2>2, Zenon DEF Drew
  <2> QED
    BY <2>3, <2>4, <2>5, <2>6, Zenon DEF Captured
<1>11. CASE Interrupt(p)
  <2>1. fs = [d \in Dirs |-> fs[d]] /\ fs' = [fs EXCEPT ![Temp(p)] = NoFiles]
    BY <1>11, Zenon DEF JobsPlaced, Interrupt
  <2> QED
    BY <1>0, <2>1, Zenon
<1> QED
  BY <1>2, <1>3, <1>4, <1>5, <1>6, <1>7, <1>8, <1>9, <1>10, <1>11, Zenon DEF Step

\* A process that was idle runs a capture because it has started one.
LEMMA StartsCapture ==
  ASSUME JobsPlaced, NEW p \in Procs, Step(p), job[p].at = "idle", job'[p].mode = "capture"
  PROVE  StartCapture(p)
<1>1. Refuse(p) \/ StartBench(p) \/ StartCapture(p)
  BY Zenon DEF Step, WriteEnvironment, Build, WriteMd, WriteCsv, ClearHdr, WriteHdr, WriteGnuplot, WriteRaw,
      ChildFails, ChildSteps, EndPass, RenderPlots, Report, Interrupt
<1>2. Refuse(p) => job'[p].mode = "refused"
  <2>1. PICK s : s = Started(runs + 1, "refused", NONE, << >>, "idle")
    BY Zenon
  <2>2. IsJob(s) /\ s.mode = "refused"
    BY <2>1, StartedFields
  <2>3. Refuse(p) => job'[p] = Stopped(s, "refused")
    BY <2>1, SetFields, Zenon DEF Refuse
  <2> QED
    BY <2>2, <2>3, StoppedFields, SMTT(60)
<1>3. StartBench(p) => job'[p].mode = "bench"
  <2>1. PICK s : s = Started(runs + 1, "bench", NONE, << >>, NONE)
    BY Zenon
  <2>2. IsJob(s) /\ s.mode = "bench"
    BY <2>1, StartedFields
  <2>3. StartBench(p) => \E todo : job' = [job EXCEPT ![p] = EnterPass(s, todo)]
    BY <2>1, Zenon DEF StartBench
  <2>4. StartBench(p) => \E todo : job'[p] = EnterPass(s, todo)
    BY <2>3, SetFields, Zenon
  <2> QED
    BY <2>2, <2>4, EnterPassFields
<1> QED
  BY <1>1, <1>2, <1>3, Zenon

\* Starting is what numbers an invocation, and a capture's start what lays claim
\* to a directory.
LEMMA StepRuns ==
  ASSUME JobsPlaced, NEW p \in Procs, Step(p)
  PROVE  /\ \/ job[p].at # "idle" /\ runs' = runs
            \/ job[p].at = "idle" /\ runs' = runs + 1 /\ job'[p].run = runs + 1
         /\ StartCapture(p) \/ claim' = claim
<1>1. CASE Refuse(p)
  <2>1. PICK s : s = Started(runs + 1, "refused", NONE, << >>, "idle")
    BY Zenon
  <2>2. s.run = runs + 1
    BY <2>1, StartedFields
  <2>3. job'[p] = Stopped(s, "refused") /\ runs' = runs + 1 /\ claim' = claim /\ job[p].at = "idle"
    BY <1>1, <2>1, SetFields, Zenon DEF Refuse, CanStart
  <2> QED
    BY <2>2, <2>3, StoppedFields
<1>2. CASE StartBench(p)
  <2>1. PICK s : s = Started(runs + 1, "bench", NONE, << >>, NONE)
    BY Zenon
  <2>2. IsJob(s) /\ s.run = runs + 1
    BY <2>1, StartedFields
  <2>3. PICK todo : job' = [job EXCEPT ![p] = EnterPass(s, todo)]
    BY <1>2, <2>1, Zenon DEF StartBench
  <2>4. job'[p] = EnterPass(s, todo)
    BY <2>3, SetFields, Zenon
  <2>5. job'[p].run = runs + 1
    BY <2>2, <2>4, EnterPassFields
  <2> QED
    BY <1>2, <2>5, Zenon DEF StartBench, CanStart
<1>3. CASE StartCapture(p)
  <2>1. PICK d : d = Published(run_id(tree))
    BY Zenon
  <2>2. job'[p].run = runs + 1 /\ runs' = runs + 1
    BY <1>3, <2>1, FilesStarted, Zenon
  <2> QED
    BY <1>3, <2>2, Zenon DEF StartCapture, CanStart
<1>4. CASE WriteEnvironment(p) \/ Build(p) \/ WriteMd(p) \/ WriteCsv(p) \/ ClearHdr(p) \/ WriteHdr(p)
  BY <1>4, Zenon DEF WriteEnvironment, Build, WriteMd, WriteCsv, ClearHdr, WriteHdr
<1>5. CASE WriteGnuplot(p) \/ WriteRaw(p) \/ ChildFails(p) \/ EndPass(p) \/ RenderPlots(p) \/ Report(p) \/ Interrupt(p)
  BY <1>5, Zenon DEF WriteGnuplot, WriteRaw, ChildFails, ChildSteps, EndPass, RenderPlots, Report, Interrupt
<1> QED
  BY <1>1, <1>2, <1>3, <1>4, <1>5, Zenon DEF Step

\* Every step keeps the numbers apart.
LEMMA NextRuns == JobsPlaced /\ RunsApart /\ [Next]_vars => RunsApart'
<1> SUFFICES ASSUME JobsPlaced, RunsApart, [Next]_vars PROVE RunsApart'
  BY Zenon
<1>1. CASE job' = job /\ runs' = runs
  BY <1>1, Zenon DEF RunsApart
<1>2. ASSUME NEW p \in Procs, Step(p) PROVE RunsApart'
  <2>1. \A q \in Procs \ {p} : job'[q] = job[q]
    BY <1>2, StepFrame, Zenon DEF Frame, OthersKept
  <2>2. CASE job[p].at # "idle" /\ runs' = runs
    <3>1. job'[p].mode = job[p].mode /\ job'[p].run = job[p].run
      BY <1>2, <2>2, JobStays, Zenon
    <3>2. \A q \in Procs : job'[q].mode = job[q].mode /\ job'[q].run = job[q].run
      BY <2>1, <3>1, Zenon
    <3> QED
      BY <2>2, <3>2, ZenonT(60) DEF RunsApart
  <2>3. CASE runs' = runs + 1 /\ job'[p].run = runs + 1
    <3>1. runs' \in Nat /\ runs' \in 0 .. runs' /\ runs' \notin 0 .. runs /\ \A n \in 0 .. runs : n \in 0 .. runs'
      BY <2>3 DEF RunsApart
    <3>2. \A q \in Procs \ {p} : job'[q].run \in 0 .. runs
      BY <2>1, Zenon DEF RunsApart
    <3>3. job'[p].run = runs'
      BY <2>3, Zenon
    <3> QED
      BY <2>1, <3>1, <3>2, <3>3, ZenonT(60) DEF RunsApart
  <2> QED
    BY <1>2, <2>2, <2>3, StepRuns, Zenon
<1> QED
  BY <1>1, <1>2, Zenon DEF Next, Step, vars, EditTree

\* A capture that starts lays claim to its directory alone, and to a sole one
\* only if it has cleared it or failed at a sole one, with no other running there.
LEMMA StartClaims ==
  ASSUME JobsPlaced, Claims, NEW p \in Procs, StartCapture(p), NEW d, d = job'[p].dir
  PROVE  /\ d \in PublishedDirs /\ Thinned(d) /\ job'[p].run = runs + 1 /\ job'[p].result # "ok"
         /\ claim' = [x \in PublishedDirs |-> claim'[x]] /\ claim'[d].run = runs + 1
         /\ \A x \in PublishedDirs \ {d} : claim'[x] = claim[x]
         /\ job'[p].at = "environment" => job'[p].todo = CapturePasses
         /\ Sole(d)' =>
              /\ Alone(p, d)
              /\ \/ DOMAIN fs'[d] = {} /\ job'[p].at = "environment"
                 \/ Sole(d) /\ job'[p].at = "idle"
<1>1. PICK e : e = Published(run_id(tree))
  BY Zenon
<1>2. e = d /\ d \in PublishedDirs
  BY <1>1, FilesStarted, Zenon DEF PublishedDirs
<1>3. /\ Thinned(d) /\ job'[p].run = runs + 1 /\ job'[p].result # "ok"
      /\ job'[p].at = "environment" => job'[p].todo = CapturePasses
      /\ \/ /\ DOMAIN fs'[d] = {} /\ job'[p].at = "environment"
            /\ claim' = Claimed(d, TRUE, Alone(p, d))
         \/ /\ fs' = fs /\ job'[p].at = "environment"
            /\ claim' = Claimed(d, FALSE, Alone(p, d))
         \/ /\ job'[p].at = "idle"
            /\ claim' = Claimed(d, claim[d].cleared, claim[d].alone /\ Alone(p, d))
  BY <1>1, <1>2, FilesStarted, ZenonT(60)
<1>4. ASSUME NEW c, NEW a, claim' = Claimed(d, c, a)
      PROVE  /\ claim' = [x \in PublishedDirs |-> claim'[x]]
             /\ \A x \in PublishedDirs \ {d} : claim'[x] = claim[x]
             /\ claim'[d].run = runs + 1 /\ claim'[d].cleared = c /\ claim'[d].alone = a
  BY <1>2, <1>4, Zenon DEF Claimed, Claims
<1>5. CASE /\ DOMAIN fs'[d] = {} /\ job'[p].at = "environment"
           /\ claim' = Claimed(d, TRUE, Alone(p, d))
  <2>1. PICK a : a = Alone(p, d)
    BY Zenon
  <2>2. /\ claim' = [x \in PublishedDirs |-> claim'[x]] /\ claim'[d].run = runs + 1
        /\ \A x \in PublishedDirs \ {d} : claim'[x] = claim[x]
        /\ claim'[d].alone = a
    BY <1>4, <1>5, <2>1, Zenon
  <2> QED
    BY <1>2, <1>3, <1>5, <2>1, <2>2, Zenon DEF Sole
<1>6. CASE claim' = Claimed(d, FALSE, Alone(p, d))
  <2>1. PICK a : a = Alone(p, d)
    BY Zenon
  <2>2. /\ claim' = [x \in PublishedDirs |-> claim'[x]] /\ claim'[d].run = runs + 1
        /\ \A x \in PublishedDirs \ {d} : claim'[x] = claim[x]
        /\ claim'[d].cleared = FALSE
    BY <1>4, <1>6, <2>1, Zenon
  <2> QED
    BY <1>2, <1>3, <2>2, Zenon DEF Sole
<1>7. CASE /\ job'[p].at = "idle"
           /\ claim' = Claimed(d, claim[d].cleared, claim[d].alone /\ Alone(p, d))
  <2>1. PICK c, a : c = claim[d].cleared /\ a = (claim[d].alone /\ Alone(p, d))
    BY Zenon
  <2>2. /\ claim' = [x \in PublishedDirs |-> claim'[x]] /\ claim'[d].run = runs + 1
        /\ \A x \in PublishedDirs \ {d} : claim'[x] = claim[x]
        /\ claim'[d].cleared = c /\ claim'[d].alone = a
    BY <1>4, <1>7, <2>1, Zenon
  <2> QED
    BY <1>2, <1>3, <1>7, <2>1, <2>2, Zenon DEF Sole
<1> QED
  BY <1>3, <1>5, <1>6, <1>7, Zenon

\* Every step leaves a capture that runs in a sole directory its claimant.
LEMMA NextClaims == JobsPlaced /\ Claims /\ [Next]_vars => Claims'
<1> SUFFICES ASSUME JobsPlaced, Claims, [Next]_vars PROVE Claims'
  BY Zenon
<1>1. CASE job' = job /\ claim' = claim
  BY <1>1, Zenon DEF Claims, Sole
<1>2. ASSUME NEW p \in Procs, Step(p) PROVE Claims'
  <2>1. \A q \in Procs \ {p} : job'[q] = job[q]
    BY <1>2, StepFrame, Zenon DEF Frame, OthersKept
  <2>2. CASE StartCapture(p)
    <3>1. PICK d : d = job'[p].dir
      BY Zenon
    <3>2. /\ claim' = [x \in PublishedDirs |-> claim'[x]] /\ claim'[d].run = job'[p].run
          /\ \A x \in PublishedDirs \ {d} : claim'[x] = claim[x]
          /\ Sole(d)' => Alone(p, d)
      BY <2>2, <3>1, StartClaims, Zenon
    <3>3. ASSUME NEW q \in Procs, Running(job'[q]), Sole(job[q].dir)'
          PROVE  claim'[job'[q].dir].run = job'[q].run
      <4>1. CASE q = p
        BY <3>1, <3>2, <4>1, Zenon
      <4>2. CASE q # p
        <5>1. job'[q] = job[q] /\ Running(job[q]) /\ job[q].dir \in PublishedDirs
          BY <2>1, <3>3, <4>2, Zenon DEF Running, JobsPlaced, Placed, PublishedDirs
        <5>2. job[q].dir # d
          BY <3>2, <3>3, <4>2, <5>1, Zenon DEF Alone, Running, Sole
        <5>3. PICK x : x = job[q].dir
          BY Zenon
        <5>4. claim'[x] = claim[x]
          BY <3>2, <5>1, <5>2, <5>3, Zenon
        <5>5. Sole(x)
          BY <3>3, <5>1, <5>3, <5>4, Zenon DEF Sole
        <5> QED
          BY <5>1, <5>3, <5>4, <5>5, Zenon DEF Claims
      <4> QED
        BY <4>1, <4>2, Zenon
    <3> QED
      BY <3>2, <3>3, Zenon DEF Claims
  <2>3. CASE ~StartCapture(p)
    <3>1. claim' = claim
      BY <1>2, <2>3, StepRuns, Zenon
    <3>2. ASSUME NEW q \in Procs, Running(job'[q]) PROVE Running(job[q]) /\ job'[q].dir = job[q].dir /\ job'[q].run = job[q].run
      <4>1. CASE q = p
        <5>1. job[p].at # "idle"
          BY <1>2, <2>3, <3>2, <4>1, StartsCapture, Zenon DEF Running
        <5> QED
          BY <1>2, <3>2, <4>1, <5>1, JobStays, Zenon DEF Running
      <4>2. CASE q # p
        BY <2>1, <3>2, <4>2, Zenon
      <4> QED
        BY <4>1, <4>2, Zenon
    <3> QED
      BY <3>1, <3>2, ZenonT(60) DEF Claims, Sole
  <2> QED
    BY <2>2, <2>3, Zenon
<1> QED
  BY <1>1, <1>2, Zenon DEF Next, Step, vars, EditTree
-----------------------------------------------------------------------------
\* The directory of a capture that is its own is no other process's to touch.
LEMMA HeldByOther ==
  ASSUME JobsPlaced, RunsApart, Claims, NEW p \in Procs, Step(p), NEW q \in Procs \ {p}, Held(q)'
  PROVE  Held(q) /\ job'[q] = job[q] /\ fs'[job[q].dir] = fs[job[q].dir]
<1>1. job'[q] = job[q]
  BY StepFrame, Zenon DEF Frame, OthersKept
<1>2. PICK x : x = job[q].dir
  BY Zenon
<1>3. /\ Live(job[q]) /\ job[q].mode = "capture" /\ x \in PublishedDirs
      /\ Sole(x)' /\ claim'[x].run = job[q].run
  BY <1>1, <1>2, Zenon DEF Held, Sole, Live, JobsPlaced, Placed, PublishedDirs
<1>4. StartCapture(p) => x # job'[p].dir
  <2> SUFFICES ASSUME StartCapture(p), x = job'[p].dir PROVE FALSE
    BY Zenon
  <2>1. claim'[x].run = runs + 1
    BY StartClaims, Zenon
  <2>2. runs \in Nat /\ job[q].run \in 0 .. runs
    BY Zenon DEF RunsApart
  <2> QED
    BY <1>3, <2>1, <2>2
<1>5. claim'[x] = claim[x]
  <2>1. CASE StartCapture(p)
    <3>1. PICK d : d = job'[p].dir
      BY Zenon
    <3>2. \A y \in PublishedDirs \ {d} : claim'[y] = claim[y]
      BY <2>1, <3>1, StartClaims, Zenon
    <3> QED
      BY <1>3, <1>4, <2>1, <3>1, <3>2, Zenon
  <2>2. CASE claim' = claim
    BY <2>2, Zenon
  <2> QED
    BY <2>1, <2>2, StepRuns, Zenon
<1>6. Held(q)
  BY <1>2, <1>3, <1>5, Zenon DEF Held, Sole
<1>7. ~Captured(p, x)
  <2> SUFFICES ASSUME Captured(p, x) PROVE FALSE
    BY Zenon
  <2>1. Running(job[p]) /\ x = job[p].dir /\ Sole(x) /\ claim[x].run = job[q].run
    BY <1>2, <1>6, Zenon DEF Captured, Running, Held
  <2>2. job[p].run = job[q].run
    BY <2>1, Zenon DEF Claims
  <2> QED
    BY <1>3, <2>1, <2>2, Zenon DEF RunsApart, Running
<1>8. fs'[x] = fs[x]
  BY <1>3, <1>4, <1>7, PublishedStep, Zenon
<1> QED
  BY <1>1, <1>2, <1>6, <1>8, Zenon

\* A capture whose directory is its own after a step had it before.
LEMMA HeldBySelf ==
  ASSUME JobsPlaced, NEW p \in Procs, Step(p), job[p].at # "idle", Held(p)'
  PROVE  /\ Held(p) /\ job[p].mode = "capture"
         /\ job'[p].run = job[p].run /\ job'[p].dir = job[p].dir /\ ~StartCapture(p)
<1>1. job'[p].mode = job[p].mode /\ job'[p].run = job[p].run /\ job'[p].dir = job[p].dir
  BY JobStays, Zenon
<1>2. ~StartCapture(p)
  BY Zenon DEF StartCapture, CanStart
<1>3. claim' = claim
  BY <1>2, StepRuns, Zenon
<1> QED
  BY <1>1, <1>2, <1>3, Zenon DEF Held, Live, Sole

\* A capture that has just started in a directory of its own has emptied it.
LEMMA HeldAtStart ==
  ASSUME JobsPlaced, Claims, NEW p \in Procs, Step(p), job[p].at = "idle", Held(p)'
  PROVE  /\ job'[p].at = "environment" /\ job'[p].todo = CapturePasses /\ job'[p].result # "ok"
         /\ DOMAIN fs'[job'[p].dir] = {}
<1>1. PICK d : d = job'[p].dir
  BY Zenon
<1>2. Live(job'[p]) /\ Sole(d)'
  BY <1>1, Zenon DEF Held, Sole
<1>3. StartCapture(p)
  BY <1>2, StartsCapture, Zenon DEF Live
<1> QED
  BY <1>1, <1>2, <1>3, StartClaims, Zenon DEF Live

\* Every file in the directory of a capture that runs or has succeeded, if it
\* is its own, is of that run, and no sole directory holds files of two.
LEMMA NextSole ==
  /\ JobsPlaced /\ RunsApart /\ Claims /\ SoleRun /\ OneRunPerCapture /\ [Next]_vars
  => (SoleRun /\ OneRunPerCapture)'
<1> SUFFICES ASSUME JobsPlaced, RunsApart, Claims, SoleRun, OneRunPerCapture, [Next]_vars
             PROVE  SoleRun' /\ OneRunPerCapture'
  BY Zenon
<1>1. CASE job' = job /\ fs' = fs /\ claim' = claim
  BY <1>1, ZenonT(60) DEF SoleRun, OneRunPerCapture, Held, Sole
<1>2. ASSUME NEW p \in Procs, Step(p) PROVE SoleRun' /\ OneRunPerCapture'
  <2>2. ASSUME NEW x \in PublishedDirs, Sole(x)'
        PROVE  \A f, g \in DOMAIN fs'[x] : fs'[x][f].run = fs'[x][g].run
    <3>1. Sole(x) => \A f, g \in DOMAIN fs[x] : fs[x][f].run = fs[x][g].run
      BY <2>2, Zenon DEF OneRunPerCapture
    <3>2. CASE StartCapture(p) /\ x = job'[p].dir
      <4>1. Thinned(x) /\ (DOMAIN fs'[x] = {} \/ Sole(x))
        BY <2>2, <3>2, StartClaims, Zenon
      <4> QED
        BY <3>1, <4>1 DEF Thinned
    <3>3. CASE ~(StartCapture(p) /\ x = job'[p].dir)
      <4>1. claim'[x] = claim[x]
        <5>1. PICK d : d = job'[p].dir
          BY Zenon
        <5>2. StartCapture(p) => \A y \in PublishedDirs \ {d} : claim'[y] = claim[y]
          BY <5>1, StartClaims, Zenon
        <5>3. StartCapture(p) \/ claim' = claim
          BY <1>2, StepRuns, Zenon
        <5> QED
          BY <2>2, <3>3, <5>1, <5>2, <5>3, Zenon
      <4>2. Sole(x)
        BY <2>2, <4>1, Zenon DEF Sole
      <4>3. CASE fs'[x] = fs[x]
        BY <3>1, <4>2, <4>3, Zenon
      <4>4. CASE Captured(p, x)
        <5>1. Held(p) /\ x = job[p].dir
          BY <4>2, <4>4, Zenon DEF Claims, Captured, Running, Held, Live
        <5>2. \A f \in DOMAIN fs[x] : fs[x][f].run = job[p].run
          BY <5>1, Zenon DEF SoleRun
        <5>3. \A f \in DOMAIN fs'[x] : fs'[x][f].run = job[p].run
          BY <4>4, <5>2, Zenon DEF Captured
        <5> QED
          BY <5>3, Zenon
      <4> QED
        BY <1>2, <2>2, <3>3, <4>3, <4>4, PublishedStep, Zenon
    <3> QED
      BY <3>2, <3>3, Zenon
  <2>3. ASSUME NEW q \in Procs, Held(q)', NEW x, x = job'[q].dir
        PROVE  \A f \in DOMAIN fs'[x] : fs'[x][f].run = job'[q].run
    <3>1. CASE q # p
      <4>1. Held(q) /\ job'[q] = job[q] /\ fs'[x] = fs[x]
        BY <1>2, <2>3, <3>1, HeldByOther, Zenon
      <4>2. x = job[q].dir
        BY <2>3, <4>1, Zenon
      <4>3. \A f \in DOMAIN fs[x] : fs[x][f].run = job[q].run
        BY <4>1, <4>2, Zenon DEF SoleRun
      <4> QED
        BY <4>1, <4>3, Zenon
    <3>2. CASE q = p /\ job[p].at # "idle"
      <4>1. Held(p) /\ job'[p].run = job[p].run /\ x = job[p].dir /\ ~StartCapture(p) /\ job[p].mode = "capture"
        BY <1>2, <2>3, <3>2, HeldBySelf, Zenon
      <4>2. x \in PublishedDirs /\ \A f \in DOMAIN fs[x] : fs[x][f].run = job[p].run
        BY <4>1, Zenon DEF SoleRun, JobsPlaced, Placed, PublishedDirs
      <4>3. fs'[x] = fs[x] \/ Captured(p, x)
        BY <1>2, <4>1, <4>2, PublishedStep, Zenon
      <4> QED
        BY <3>2, <4>1, <4>2, <4>3, ZenonT(60) DEF Captured
    <3>3. CASE q = p /\ job[p].at = "idle"
      BY <1>2, <2>3, <3>3, HeldAtStart, Zenon
    <3> QED
      BY <3>1, <3>2, <3>3, Zenon
  <2> QED
    BY <2>2, <2>3, ZenonT(60) DEF SoleRun, OneRunPerCapture
<1> QED
  BY <1>1, <1>2, Zenon DEF Next, Step, vars, EditTree

Claimants == JobsPlaced /\ RunsApart /\ Claims /\ SoleRun /\ OneRunPerCapture

\* In the beginning there are no captures and no files.
LEMMA InitClaimants == Init => Claimants /\ \A p \in Procs : ~Held(p)
<1> SUFFICES ASSUME Init PROVE Claimants /\ \A p \in Procs : ~Held(p)
  BY Zenon
<1>1. \A p \in Procs : job[p].mode # "capture" /\ job[p].run = 0 /\ job[p].at = "idle"
  BY CaptureAssumption, Zenon DEF Init, NoJob
<1>2. \A p \in Procs : ~Held(p) /\ ~Running(job[p])
  BY <1>1, Zenon DEF Held, Live, Running
<1>3. OneRunPerCapture
  BY Zenon DEF Init, NoFiles, Dirs, PublishedDirs, OneRunPerCapture
<1>4. RunsApart
  <2>1. runs = 0 /\ runs \in Nat /\ 0 \in 0 .. runs
    BY DEF Init
  <2> QED
    BY <1>1, <2>1, Zenon DEF RunsApart
<1>5. Claims
  BY <1>2, Zenon DEF Claims, Init
<1> QED
  BY <1>2, <1>3, <1>4, <1>5, InitPlaced, Zenon DEF Claimants, SoleRun

\* "Two runs can never mix": the files of a capture directory are all of one
\* invocation, whatever failed, was interrupted or rerun and whoever else runs,
\* unless the last capture to set about it kept it unread or came while
\* another was running in it.
THEOREM CapturesDoNotMix == Spec => []OneRunPerCapture
<1>1. Init => Claimants
  BY InitClaimants, Zenon
<1>2. Claimants /\ [Next]_vars => Claimants'
  BY NextPlaced, NextRuns, NextClaims, NextSole, Zenon DEF Claimants
<1>3. Claimants => OneRunPerCapture
  BY Zenon DEF Claimants
<1> QED
  BY <1>1, <1>2, <1>3, PTL DEF Spec
-----------------------------------------------------------------------------
\* Every step keeps what the latency pass of a capture has written.
LEMMA NextHeldOwn == JobsPlaced /\ RunsApart /\ Claims /\ HeldOwn /\ [Next]_vars => HeldOwn'
<1> SUFFICES ASSUME JobsPlaced, RunsApart, Claims, HeldOwn, [Next]_vars PROVE HeldOwn'
  BY Zenon
<1>1. CASE job' = job /\ fs' = fs /\ claim' = claim
  BY <1>1, Zenon DEF HeldOwn, Held, Sole
<1>2. ASSUME NEW p \in Procs, Step(p) PROVE HeldOwn'
  <2> SUFFICES ASSUME NEW q \in Procs, Held(q)', Reporting(job'[q]), Head(job'[q].todo).kind = "latency"
               PROVE  Own(job'[q], fs'[job'[q].out])
    BY Zenon DEF HeldOwn
  <2>1. CASE q # p
    <3>1. Held(q) /\ job'[q] = job[q] /\ fs'[job[q].dir] = fs[job[q].dir]
      BY <1>2, <2>1, HeldByOther, Zenon
    <3>2. job[q].out = job[q].dir
      BY <3>1, ZenonT(60) DEF Held, Live, JobsPlaced, Placed, Reporting
    <3> QED
      BY <3>1, <3>2, Zenon DEF HeldOwn
  <2>2. CASE q = p /\ job[p].at # "idle"
    <3>1. Held(p)
      BY <1>2, <2>2, HeldBySelf, Zenon
    <3>2. Kept(job'[p], job[p]) /\ (Own(job[p], fs[job[p].out]) => Own(job'[p], fs'[job'[p].out]))
      BY <1>2, <2>2, StepOwn, Zenon
    <3>3. CASE Reporting(job[p])
      BY <2>2, <3>1, <3>2, <3>3, Zenon DEF HeldOwn, Kept
    <3>4. CASE ~Reporting(job[p])
      BY <2>2, <3>2, <3>4, OwnTrivially, Zenon
    <3> QED
      BY <3>3, <3>4, Zenon
  <2>3. CASE q = p /\ job[p].at = "idle"
    <3>1. job'[p].at = "environment"
      BY <1>2, <2>3, HeldAtStart, Zenon
    <3> QED
      BY <2>3, <3>1, Zenon DEF Reporting, AfterMd
  <2> QED
    BY <2>1, <2>2, <2>3, Zenon
<1> QED
  BY <1>1, <1>2, Zenon DEF Next, Step, vars, EditTree

\* What a pass has made stays when files come, and when .hdr files go that are
\* not of its crate's latency report.
LEMMA MadeKept ==
  ASSUME NEW pass, pass.kind # "plots", NEW D, NEW E, Made(pass, D),
         \A f \in DOMAIN D :
           f \in DOMAIN E \/ (f[3] = "hdr" /\ ~(pass.kind = "latency" /\ f[2] = pass.crate))
  PROVE  Made(pass, E)
<1>1. /\ \A ext : PassFile(pass, ext)[3] = ext
      /\ \A ext : ReportFile(pass.crate, ext)[3] = ext
  BY Zenon DEF PassFile, ReportFile
<1>2. \A ext \in {"txt", "raw"} : PassFile(pass, ext) \in DOMAIN D => PassFile(pass, ext) \in DOMAIN E
  BY <1>1, Zenon
<1>3. \A ext \in {"md", "csv", "gnuplot"} :
        ReportFile(pass.crate, ext) \in DOMAIN D => ReportFile(pass.crate, ext) \in DOMAIN E
  BY <1>1, Zenon
<1>4. pass.kind = "latency" => HdrsIn(D, pass.crate) \subseteq HdrsIn(E, pass.crate)
  BY Zenon DEF HdrsIn
<1> QED
  BY <1>2, <1>3, <1>4, ZenonT(60) DEF Made

\* A step inside a pass takes nothing from what the passes before it have made.
LEMMA ProgressKept ==
  ASSUME NEW j, NEW e, NEW D, NEW E, Schedule(j), Progress(j, D),
         j.at \in ChildSteps, e.at \in ChildSteps, e.todo = j.todo, e.failed = j.failed,
         e.at = "run" /\ e.ok /\ Head(j.todo).kind = "cross_core" =>
           PassFile(Head(j.todo), "raw") \in DOMAIN E,
         \A f \in DOMAIN D :
           \/ f \in DOMAIN E
           \/ f[3] = "hdr" /\ Head(j.todo).kind = "latency" /\ f[2] = Head(j.todo).crate
  PROVE  Progress(e, E)
<1>1. j.at \notin {"environment", "report"} /\ e.at # "environment" /\ Done(e) = Done(j)
  BY ZenonT(60) DEF ChildSteps, Done
<1>2. /\ Done(j) \in 0 .. Len(CapturePasses) - 1 /\ Len(CapturePasses) \in Nat
      /\ Head(j.todo) = CapturePasses[Done(j) + 1]
  BY <1>1, ScheduleHead, CapturePassesAre, ZenonT(60)
<1>3. Environment \in DOMAIN E
  BY <1>1, ZenonT(60) DEF Progress, Environment
<1>4. ASSUME NEW i \in 1 .. Done(j), Made(CapturePasses[i], D) PROVE Made(CapturePasses[i], E)
  <2>1. i \in 1 .. Len(CapturePasses) /\ i # Len(CapturePasses) /\ i # Done(j) + 1
        /\ Done(j) + 1 \in 1 .. Len(CapturePasses)
    BY <1>2
  <2>2. CapturePasses[i].kind # "plots"
    BY <2>1, CapturePassesAre, ZenonT(60)
  <2>3. ~(/\ CapturePasses[i].kind = "latency" /\ Head(j.todo).kind = "latency"
          /\ CapturePasses[i].crate = Head(j.todo).crate)
    BY <1>2, <2>1, CapturePassesAre, ZenonT(60)
  <2>4. PICK pass : pass = CapturePasses[i]
    BY Zenon
  <2> QED
    BY <1>4, <2>2, <2>3, <2>4, MadeKept
<1> QED
  BY <1>1, <1>3, <1>4, ZenonT(60) DEF Progress

\* A pass that has succeeded is one more.
LEMMA ProgressNext ==
  ASSUME NEW j, NEW e, NEW D, NEW E, Schedule(j), Progress(j, D),
         j.at \notin {"environment", "report"}, e.todo = Tail(j.todo), e.at = Entry(e.todo),
         DOMAIN D \subseteq DOMAIN E, ~e.failed => ~j.failed /\ Made(Head(j.todo), E)
  PROVE  Progress(e, E)
<1>1. /\ Done(j) \in 0 .. Len(CapturePasses) - 1 /\ Len(CapturePasses) \in Nat
      /\ Head(j.todo) = CapturePasses[Done(j) + 1]
  BY ScheduleHead, CapturePassesAre, ZenonT(60)
<1>2. Done(e) = Done(j) + 1
  BY ScheduleTail, Zenon
<1>3. Environment \in DOMAIN E
  BY Zenon DEF Progress
<1>4. ASSUME ~e.failed, NEW i \in 1 .. Done(e) PROVE Made(CapturePasses[i], E)
  <2>1. CASE i = Done(j) + 1
    BY <1>1, <1>4, <2>1, Zenon
  <2>2. CASE i # Done(j) + 1
    <3>1. i \in 1 .. Done(j) /\ i \in 1 .. Len(CapturePasses) /\ i # Len(CapturePasses)
      BY <1>1, <1>2, <2>2
    <3>2. CapturePasses[i].kind # "plots" /\ Made(CapturePasses[i], D)
      BY <1>4, <3>1, CapturePassesAre, Zenon DEF Progress
    <3>3. PICK pass : pass = CapturePasses[i]
      BY Zenon
    <3> QED
      BY <3>2, <3>3, MadeKept, Zenon
  <2> QED
    BY <2>1, <2>2, Zenon
<1>5. e.at = "run" => Head(e.todo).kind = "cache"
  BY EntryIs, ZenonT(60)
<1> QED
  BY <1>3, <1>4, <1>5, ZenonT(60) DEF Progress

\* What p's running capture is after a step of p.
Advances(p) ==
  /\ job'[p].at # "idle" => Progress(job'[p], fs'[job[p].dir])
  /\ job'[p].result = "ok" => Complete(fs'[job[p].dir]) /\ job'[p].at = "idle"

\* The latency pass that has written its report has made what it should.
LEMMA LatencyMade ==
  ASSUME JobsPlaced, HeldOwn, NEW p \in Procs, Held(p), job[p].at = "run", job[p].ok,
         Now(p).kind = "latency"
  PROVE  /\ \A e \in {"md", "csv", "gnuplot"} : ReportFile(Now(p).crate, e) \in DOMAIN fs[job[p].dir]
         /\ HdrsIn(fs[job[p].dir], Now(p).crate) # {}
<1>0. job[p].mode = "capture" /\ Reporting(job[p]) /\ Head(job[p].todo).kind = "latency"
  BY Zenon DEF Held, Live, Reporting, WritesReport, Now
<1>1. job[p].out = job[p].dir /\ job[p].built \in Trees
  BY <1>0, Zenon DEF JobsPlaced, Placed, Reporting
<1>2. PICK j, D : j = job[p] /\ D = fs[job[p].dir]
  BY Zenon
<1>3. HasAll(j, D, {"md", "csv", "gnuplot"}) /\ \A f \in Measured(j) : Has(j, D, f)
  <2>1. Own(j, D)
    BY <1>0, <1>1, <1>2, Zenon DEF HeldOwn
  <2> QED
    BY <1>0, <1>2, <2>1, ZenonT(60) DEF Own, WritesReport
<1>4. PICK l \in Scenarios[j.built] : TRUE
  BY <1>1, <1>2, CaptureAssumption, ZenonT(60)
<1>5. Hdr(Head(j.todo).crate, l) \in DOMAIN D
  BY <1>3, <1>4, ZenonT(60) DEF Measured, Has
<1>6. Hdr(Head(j.todo).crate, l) \in HdrsIn(D, Head(j.todo).crate)
  BY <1>5, ZenonT(60) DEF HdrsIn, Hdr
<1>7. \A e \in {"md", "csv", "gnuplot"} : ReportFile(Head(j.todo).crate, e) \in DOMAIN D
  BY <1>3, Zenon DEF HasAll, Has
<1> QED
  BY <1>2, <1>6, <1>7, Zenon DEF Now

\* Every step of a running capture brings it on, or ends it with what its
\* result says.
LEMMA StepProgress ==
  ASSUME JobsPlaced, OnSchedule, HeldOwn, CapturesProgress,
         NEW p \in Procs, Step(p), Held(p), job[p].at # "idle"
  PROVE  Advances(p)
<1>a. job[p].mode = "capture"
  BY Zenon DEF Held, Live
<1>0. /\ Placed(p, job[p]) /\ IsJob(job[p]) /\ Schedule(job[p])
      /\ Progress(job[p], fs[job[p].dir]) /\ job[p].result # "ok"
      /\ job[p].dir \in Dirs /\ job[p].dir \in PublishedDirs /\ job[p].dir # Temp(p)
  <2>1. Placed(p, job[p]) /\ IsJob(job[p]) /\ Schedule(job[p])
    BY <1>a, Zenon DEF JobsPlaced, Placed, OnSchedule
  <2>2. job[p].dir \in PublishedDirs
    BY <1>a, <2>1, Zenon DEF Placed, PublishedDirs
  <2>3. job[p].dir \in Dirs /\ job[p].dir # Temp(p)
    BY <2>2, DirsApart, Zenon DEF PublishedDirs
  <2> QED
    BY <2>1, <2>2, <2>3, Zenon DEF CapturesProgress
<1>1. PICK d : d = job[p].dir
  BY Zenon
<1>2. d \in Dirs /\ Progress(job[p], fs[d])
  BY <1>0, <1>1, Zenon
<1>k. ASSUME Kept(job'[p], job[p]), job[p].at \in ChildSteps, job'[p].at \in ChildSteps,
             job'[p].at = "run" /\ job'[p].ok /\ Head(job[p].todo).kind = "cross_core" =>
               PassFile(Head(job[p].todo), "raw") \in DOMAIN fs'[d],
             \A f \in DOMAIN fs[d] :
               \/ f \in DOMAIN fs'[d]
               \/ f[3] = "hdr" /\ Head(job[p].todo).kind = "latency" /\ f[2] = Head(job[p].todo).crate
      PROVE  Advances(p)
  <2>1. PICK j, e, D, E : j = job[p] /\ e = job'[p] /\ D = fs[d] /\ E = fs'[d]
    BY ZenonT(60)
  <2>2. /\ Schedule(j) /\ Progress(j, D) /\ j.at \in ChildSteps /\ e.at \in ChildSteps
        /\ e.todo = j.todo /\ e.failed = j.failed /\ e.result # "ok"
    BY <1>0, <1>2, <1>k, <2>1, ZenonT(60) DEF Kept
  <2>3. e.at = "run" /\ e.ok /\ Head(j.todo).kind = "cross_core" =>
          PassFile(Head(j.todo), "raw") \in DOMAIN E
    BY <1>k, <2>1, ZenonT(60)
  <2>4. \A f \in DOMAIN D :
          f \in DOMAIN E \/ (f[3] = "hdr" /\ Head(j.todo).kind = "latency" /\ f[2] = Head(j.todo).crate)
    BY <1>k, <2>1, ZenonT(60)
  <2>5. Progress(e, E)
    BY <2>2, <2>3, <2>4, ProgressKept, ZenonT(60)
  <2> QED
    BY <1>1, <2>1, <2>2, <2>5, ZenonT(60) DEF Advances
<1>n. ASSUME NEW ok \in BOOLEAN, job'[p] = PassDone(job[p], ok),
             job[p].at \notin {"environment", "report"},
             DOMAIN fs[d] \subseteq DOMAIN fs'[d], ok => Made(Head(job[p].todo), fs'[d])
      PROVE  Advances(p)
  <2>1. PICK j, e, D, E : j = job[p] /\ e = job'[p] /\ D = fs[d] /\ E = fs'[d]
    BY Zenon
  <2>2. e = PassDone(j, ok) /\ IsJob(j) /\ j.mode = "capture"
    BY <1>0, <1>a, <1>n, <2>1, ZenonT(60)
  <2>3. /\ e.todo = Tail(j.todo) /\ e.at = Entry(e.todo) /\ e.failed = Failure(j, ok)
        /\ e.result = j.result
    BY <2>2, PassDoneFields, ZenonT(60)
  <2>4. ~e.failed => ~j.failed /\ Made(Head(j.todo), E)
    BY <1>n, <2>1, <2>3, ZenonT(60) DEF Failure
  <2>5. Schedule(j) /\ Progress(j, D) /\ j.at \notin {"environment", "report"} /\ j.result # "ok"
        /\ DOMAIN D \subseteq DOMAIN E
    BY <1>0, <1>2, <1>n, <2>1, ZenonT(60)
  <2>6. Progress(e, E)
    BY <2>3, <2>4, <2>5, ProgressNext, ZenonT(60)
  <2> QED
    BY <1>1, <2>1, <2>3, <2>5, <2>6, ZenonT(60) DEF Advances
<1>3. ~(Refuse(p) \/ StartBench(p) \/ StartCapture(p))
  BY Zenon DEF Refuse, StartBench, StartCapture, CanStart
<1>4. CASE WriteEnvironment(p)
  <2>1. CASE job' = [job EXCEPT ![p] = Stopped(job[p], "failed")]
    <3>1. job'[p] = Stopped(job[p], "failed")
      BY <2>1, SetFields, Zenon
    <3> QED
      BY <1>0, <3>1, StoppedFields DEF Advances
  <2>2. CASE /\ fs' = Put(job[p].dir, {Environment}, [run |-> job[p].run, pass |-> "environment"])
             /\ job' = [job EXCEPT ![p] = EnterPass(job[p], job[p].todo)]
    <3>1. PICK st : fs' = Put(d, {Environment}, st)
      BY <1>1, <2>2, Zenon
    <3>2. Wrote(d, {Environment}, st)
      BY <1>2, <3>1, PutWrote, ZenonT(60)
    <3>3. Environment \in DOMAIN fs'[d]
      BY <3>2, Zenon DEF Wrote
    <3>4. PICK todo : todo = job[p].todo
      BY Zenon
    <3>5. job'[p] = EnterPass(job[p], todo)
      BY <2>2, <3>4, SetFields, Zenon
    <3>6. job'[p].todo = job[p].todo /\ job'[p].at = Entry(todo) /\ job'[p].result # "ok"
      BY <1>0, <3>4, <3>5, EnterPassFields
    <3>7. job'[p].at = "run" => Head(job'[p].todo).kind = "cache"
      BY <3>4, <3>6, EntryIs, ZenonT(60)
    <3>8. job[p].todo = CapturePasses
      BY <1>0, <1>4, Zenon DEF WriteEnvironment, Schedule
    <3>9. Done(job'[p]) = 0
      BY <3>6, <3>8, PlotsLast, SMTT(60) DEF Done
    <3>10. Progress(job'[p], fs'[d])
      BY <3>3, <3>7, <3>9 DEF Progress
    <3> QED
      BY <1>1, <3>6, <3>10, Zenon DEF Advances
  <2> QED
    BY <1>4, <2>1, <2>2, ZenonT(60) DEF WriteEnvironment
<1>5. CASE Build(p)
  <2>1. Kept(job'[p], job[p]) /\ fs' = fs /\ job[p].at \in ChildSteps
    BY <1>5, BuildFields, ZenonT(60) DEF Build, ChildSteps
  <2>2. /\ job'[p].at \in {"md", "raw", "run"}
        /\ job'[p].at = "run" => Head(job[p].todo).kind # "cross_core"
    BY <1>5, BuildFields, Zenon
  <2> QED
    BY <1>k, <2>1, <2>2, ZenonT(60) DEF ChildSteps
<1>6. CASE WriteMd(p) \/ WriteRaw(p)
  <2>1. PICK o : o = out_dir(p)
    BY Zenon
  <2>2. Kept(job'[p], job[p]) /\ job'[p].at = IF job[p].at = "md" THEN "csv" ELSE "run"
    BY <1>6, <2>1, OutFields, Zenon
  <2>3. job[p].at \in {"md", "raw"} /\ (WriteRaw(p) <=> job[p].at = "raw")
    BY <1>6, Zenon DEF WriteMd, WriteRaw
  <2>4. \/ Now(p).kind = "alloc" /\ fs' = fs
        \/ \E S : Wrote(o, S, Stamp(p)) /\ (WriteRaw(p) => PassFile(Now(p), "raw") \in S)
    BY <1>6, <2>1, <2>3, FilesWritten, ZenonT(60) DEF WriteMd
  <2>5. /\ DOMAIN fs[d] \subseteq DOMAIN fs'[d]
        /\ WriteRaw(p) => PassFile(Now(p), "raw") \in DOMAIN fs'[o] \/ Now(p).kind = "alloc"
    BY <1>2, <2>4, Zenon DEF Wrote
  <2>6. WriteRaw(p) => o = d
    BY <1>0, <1>1, <1>a, <2>1, <2>3, OutDirIs, ZenonT(60) DEF Placed, Now
  <2> QED
    BY <1>k, <2>2, <2>3, <2>5, <2>6, ZenonT(60) DEF ChildSteps, Now
<1>7. CASE WriteCsv(p) \/ WriteHdr(p) \/ WriteGnuplot(p)
  <2>1. PICK o : o = job[p].out
    BY ZenonT(60)
  <2>2. PICK at \in {"clear_hdr", "gnuplot", "run"} : Goto(p, at)
    BY <1>7, ZenonT(60) DEF WriteCsv, WriteHdr, WriteGnuplot
  <2>3. Kept(job'[p], job[p]) /\ job'[p].at = at
    BY <2>2, GotoFields, ZenonT(60)
  <2>4. job[p].at \in AfterMd
    BY <1>7, ZenonT(60) DEF WriteCsv, WriteHdr, WriteGnuplot, AfterMd
  <2>5. \E S : Wrote(o, S, Stamp(p))
    BY <1>7, <2>1, FilesWritten, ZenonT(60)
  <2>6. DOMAIN fs[d] \subseteq DOMAIN fs'[d]
    BY <1>2, <2>5, ZenonT(60) DEF Wrote
  <2>7. Head(job[p].todo).kind # "cross_core"
    BY <1>0, <2>4, ZenonT(60) DEF Placed, WritesReport
  <2> QED
    BY <1>k, <2>2, <2>3, <2>4, <2>6, <2>7, ZenonT(60) DEF ChildSteps, AfterMd
<1>8. CASE ClearHdr(p)
  <2>1. PICK o : o = job[p].out
    BY Zenon
  <2>2. Kept(job'[p], job[p]) /\ job'[p].at = "hdr" /\ job[p].at = "clear_hdr" /\ Thinned(o)
    BY <1>8, <2>1, FilesCleared, ZenonT(60) DEF ClearHdr
  <2>3. PICK gone \in SUBSET HdrFiles(o, Now(p).crate) : ClearedTo(p, o, gone)
    BY <1>8, <2>1, FilesCleared, Zenon
  <2>4. o = d => Head(job[p].todo).kind = "latency"
    BY <1>0, <1>1, <1>a, <2>1, <2>2, DirsApart, ZenonT(60) DEF Placed, WritesReport, AfterMd
  <2>5. o # d => fs'[d] = fs[d]
    BY <1>2, <2>2, ZenonT(60) DEF Thinned
  <2>6. \A f \in gone : f[3] = "hdr" /\ f[2] = Head(job[p].todo).crate
    BY <2>3, ZenonT(60) DEF HdrFiles, Now
  <2>7. DOMAIN fs'[o] = DOMAIN fs[o] \ gone
    BY <2>3, Zenon DEF ClearedTo
  <2>8. \A f \in DOMAIN fs[d] :
          \/ f \in DOMAIN fs'[d]
          \/ f[3] = "hdr" /\ Head(job[p].todo).kind = "latency" /\ f[2] = Head(job[p].todo).crate
    BY <2>4, <2>5, <2>6, <2>7, Zenon
  <2> QED
    BY <1>k, <2>2, <2>8, ZenonT(60) DEF ChildSteps
<1>9. CASE ChildFails(p)
  <2>1. PICK o : o = job[p].out
    BY Zenon
  <2>2. fs' = fs \/ \E S : Wrote(o, S, Stamp(p))
    BY <1>9, <2>1, FilesFailed, Zenon
  <2>3. DOMAIN fs[d] \subseteq DOMAIN fs'[d] /\ job[p].at \in ChildSteps
    BY <1>2, <1>9, <2>2, Zenon DEF Wrote, ChildFails
  <2>4. CASE job[p].at = "build"
    <3>1. PICK ok \in BOOLEAN : ~ok /\ job' = [job EXCEPT ![p] = PassDone(job[p], ok)]
      BY <1>9, <2>4, Zenon DEF ChildFails
    <3>2. job'[p] = PassDone(job[p], ok)
      BY <3>1, SetFields, Zenon
    <3> QED
      BY <1>n, <2>3, <2>4, <3>1, <3>2, Zenon
  <2>5. CASE job[p].at # "build"
    <3> DEFINE e == [job[p] EXCEPT !.at = "run", !.ok = FALSE]
    <3>1. job' = [job EXCEPT ![p] = e]
      BY <1>9, <2>5, Zenon DEF ChildFails
    <3>2. Kept(e, job[p]) /\ e.at = "run" /\ ~e.ok
      BY <1>0, FailFields, Zenon
    <3> HIDE DEF e
    <3>3. job'[p] = e
      BY <3>1, SetFields, ZenonT(60)
    <3> QED
      BY <1>k, <2>3, <3>2, <3>3, Zenon DEF ChildSteps
  <2> QED
    BY <2>4, <2>5, Zenon
<1>10. CASE EndPass(p)
  <2>1. job[p].at = "run" /\ job[p].at \notin {"environment", "report", "plots"}
    BY <1>10, Zenon DEF EndPass
  <2>2. CASE Teed(p, d) /\ job'[p] = PassDone(job[p], job[p].ok)
    <3>1. DOMAIN fs'[d] = {PassFile(Now(p), "txt")} \union DOMAIN fs[d]
      BY <2>2, Zenon DEF Teed
    <3>2. PICK ok \in BOOLEAN : ok <=> job[p].ok
      BY ZenonT(60)
    <3>3. job'[p] = PassDone(job[p], ok)
      BY <2>2, <3>2, Zenon DEF PassDone, Failure
    <3>4. Now(p).kind # "plots"
      BY <1>0, <2>1, ScheduleHead, Zenon DEF Schedule, Now
    <3>5. ASSUME ok PROVE Made(Now(p), fs'[d])
      <4>1. PICK pass, D, E : pass = Now(p) /\ D = fs[d] /\ E = fs'[d]
        BY Zenon
      <4>2. pass.kind = "latency" =>
              /\ \A e \in {"md", "csv", "gnuplot"} : ReportFile(pass.crate, e) \in DOMAIN D
              /\ HdrsIn(D, pass.crate) # {}
        BY <1>1, <2>1, <3>2, <3>5, <4>1, LatencyMade, ZenonT(60)
      <4>3. pass.kind = "cross_core" => PassFile(pass, "raw") \in DOMAIN D
        BY <1>2, <2>1, <3>2, <3>5, <4>1, ZenonT(60) DEF Progress, Now
      <4>4. DOMAIN E = {PassFile(pass, "txt")} \union DOMAIN D /\ pass.kind # "plots"
        BY <3>1, <3>4, <4>1, Zenon
      <4>5. HdrsIn(D, pass.crate) \subseteq HdrsIn(E, pass.crate)
        BY <4>4, Zenon DEF HdrsIn
      <4>6. Made(pass, E)
        BY <4>2, <4>3, <4>4, <4>5, ZenonT(60) DEF Made
      <4> QED
        BY <4>1, <4>6, Zenon
    <3>6. ok => Made(Head(job[p].todo), fs'[d])
      BY <3>5, Zenon DEF Now
    <3> QED
      BY <1>n, <2>1, <3>1, <3>3, <3>6, ZenonT(60)
  <2>3. CASE Swept(p) /\ job'[p] = PassDone(job[p], FALSE)
    <3>1. fs'[d] = fs[d]
      BY <1>0, <1>1, <2>3, ZenonT(60) DEF Swept
    <3>2. PICK ok \in BOOLEAN : ~ok /\ job'[p] = PassDone(job[p], ok)
      BY <2>3, ZenonT(60)
    <3> QED
      BY <1>n, <2>1, <3>1, <3>2, ZenonT(60)
  <2> QED
    BY <1>1, <1>10, <1>a, <2>2, <2>3, FilesEnded, Zenon
<1>11. CASE RenderPlots(p)
  <2>1. d = IF job[p].mode = "capture" THEN job[p].dir ELSE out_dir(p)
    BY <1>1, <1>a, Zenon
  <2>2. PICK drawn \in SUBSET Drawable(p, d) :
          /\ Drew(p, d, drawn)
          /\ job'[p] = PassDone(job[p], drawn = Drawable(p, d) /\ Scripts(p, d) # {})
    BY <1>11, <2>1, FilesDrawn, ZenonT(60)
  <2>3. PICK ok \in BOOLEAN : /\ job'[p] = PassDone(job[p], ok)
                              /\ ok => drawn = Drawable(p, d)
    BY <2>2, ZenonT(60)
  <2>4. DOMAIN fs'[d] = {Svg(f) : f \in drawn} \union DOMAIN fs[d]
    BY <2>2, Zenon DEF Drew
  <2>5. job[p].at = "plots"
    BY <1>11, ZenonT(60) DEF RenderPlots
  <2>6. Now(p).kind = "plots"
    BY <1>0, <2>5, ScheduleHead, ZenonT(60) DEF Schedule, Now
  <2>7. ASSUME ok, NEW f \in DOMAIN fs'[d], f[3] = "gnuplot" \/ (f[1] = "cross_core" /\ f[3] = "raw")
        PROVE  Svg(f) \in DOMAIN fs'[d]
    <3>1. \A g : Svg(g)[3] = "svg"
      BY Zenon DEF Svg
    <3>2. f \in DOMAIN fs[d]
      BY <2>4, <2>7, <3>1, Zenon
    <3>3. f \in Drawable(p, d)
      BY <1>a, <2>7, <3>2, Zenon DEF Drawable, Scripts
    <3> QED
      BY <2>3, <2>4, <2>7, <3>3, Zenon
  <2>8. ok => Made(Now(p), fs'[d])
    BY <2>6, <2>7, ZenonT(60) DEF Made
  <2> QED
    BY <1>n, <2>3, <2>4, <2>5, <2>8, Zenon DEF Now
<1>12. CASE Report(p)
  <2>1. PICK result : /\ job' = [job EXCEPT ![p] = Stopped(job[p], result)]
                      /\ result = IF job[p].failed THEN "incomplete" ELSE "ok"
    BY <1>12, Zenon DEF Report
  <2>2. job'[p] = Stopped(job[p], result) /\ fs' = fs /\ job[p].at = "report"
    BY <1>12, <2>1, SetFields, Zenon DEF Report
  <2>3. job'[p].at = "idle" /\ job'[p].result = result
    BY <1>0, <2>2, StoppedFields
  <2>4. job[p].todo = << >>
    BY <1>0, <2>2, Zenon DEF Schedule
  <2>5. Done(job[p]) = Len(CapturePasses)
    BY <2>4, PlotsLast DEF Done
  <2>6. DOMAIN CapturePasses = 1 .. Len(CapturePasses)
    BY CapturePassesAre, SMTT(60)
  <2>7. ~job[p].failed => Complete(fs[d])
    BY <1>2, <2>2, <2>5, <2>6, ZenonT(60) DEF Progress, Complete
  <2> QED
    BY <1>1, <2>1, <2>2, <2>3, <2>7 DEF Advances
<1>13. CASE Interrupt(p)
  <2>1. job'[p] = Stopped(job[p], "interrupted")
    BY <1>13, SetFields, Zenon DEF Interrupt
  <2> QED
    BY <1>0, <2>1, StoppedFields DEF Advances
<1> QED
  BY <1>3, <1>4, <1>5, <1>6, <1>7, <1>8, <1>9, <1>10, <1>11, <1>12, <1>13, ZenonT(60) DEF Step

\* Every step keeps the progress of the captures: a pass that succeeds has left
\* its files, and nothing removes them before the capture is over.
LEMMA NextProgress ==
  /\ JobsPlaced /\ RunsApart /\ Claims /\ OnSchedule /\ HeldOwn /\ CapturesProgress /\ [Next]_vars
  => CapturesProgress'
<1> SUFFICES ASSUME JobsPlaced, RunsApart, Claims, OnSchedule, HeldOwn, CapturesProgress, [Next]_vars
             PROVE  CapturesProgress'
  BY Zenon
<1>1. CASE job' = job /\ fs' = fs /\ claim' = claim
  BY <1>1, Zenon DEF CapturesProgress, Held, Sole
<1>2. ASSUME NEW p \in Procs, Step(p) PROVE CapturesProgress'
  <2>2. ASSUME NEW q \in Procs, Held(q)'
        PROVE  /\ job'[q].at # "idle" => Progress(job'[q], fs'[job'[q].dir])
               /\ job'[q].result = "ok" => Complete(fs'[job'[q].dir]) /\ job'[q].at = "idle"
    <3>1. CASE q # p
      <4>1. Held(q) /\ job'[q] = job[q] /\ fs'[job[q].dir] = fs[job[q].dir]
        BY <1>2, <2>2, <3>1, HeldByOther, Zenon
      <4> QED
        BY <4>1, Zenon DEF CapturesProgress
    <3>2. CASE q = p /\ job[p].at # "idle"
      <4>1. Held(p) /\ job'[p].dir = job[p].dir
        BY <1>2, <2>2, <3>2, HeldBySelf, Zenon
      <4>2. Advances(p)
        BY <1>2, <3>2, <4>1, StepProgress, Zenon
      <4> QED
        BY <3>2, <4>1, <4>2, ZenonT(60) DEF Advances
    <3>3. CASE q = p /\ job[p].at = "idle"
      <4>1. job'[p].at = "environment" /\ job'[p].todo = CapturePasses /\ job'[p].result # "ok"
        BY <1>2, <2>2, <3>3, HeldAtStart, Zenon
      <4>2. Done(job'[p]) = 0
        BY <4>1, PlotsLast DEF Done
      <4>3. Progress(job'[p], fs'[job'[p].dir])
        BY <4>1, <4>2 DEF Progress
      <4> QED
        BY <3>3, <4>1, <4>3, Zenon
    <3> QED
      BY <3>1, <3>2, <3>3, ZenonT(60)
  <2> QED
    BY <2>2, ZenonT(60) DEF CapturesProgress
<1> QED
  BY <1>1, <1>2, Zenon DEF Next, Step, vars, EditTree

\* A directory in which every pass has left its product holds a whole capture.
LEMMA CompleteHasAll ==
  ASSUME NEW D, Complete(D)
  PROVE  CaptureFiles \subseteq DOMAIN D /\ \A c \in Range(BENCH_CRATES) : HdrsIn(D, c) # {}
<1> DEFINE N == Len(CapturePasses)
<1>1. N \in Nat \ {0} /\ DOMAIN CapturePasses = 1 .. N
  BY CapturePassesAre, SMTT(60)
<1>2. \A i \in 1 .. N : Made(CapturePasses[i], D)
  BY <1>1, Zenon DEF Complete
<1>3. \A f \in DOMAIN D : f[3] = "gnuplot" \/ (f[1] = "cross_core" /\ f[3] = "raw") => Svg(f) \in DOMAIN D
  <2>1. N \in 1 .. N
    BY <1>1
  <2>2. CapturePasses[N].kind = "plots"
    BY <2>1, PlotsLast, Zenon
  <2>3. Made(CapturePasses[N], D)
    BY <1>2, <2>1, Zenon
  <2> QED
    BY <2>2, <2>3, Zenon DEF Made
<1>4. \A i \in 1 .. N - 1 : PassFile(CapturePasses[i], "txt") \in DOMAIN D
  <2> TAKE i \in 1 .. N - 1
  <2>1. i \in 1 .. N /\ i # N
    <3>1. \A n \in Nat : \A k \in 1 .. n - 1 : k \in 1 .. n /\ k # n
      OBVIOUS
    <3> QED
      BY <1>1, <3>1, Zenon
  <2>2. CapturePasses[i].kind # "plots"
    BY <2>1, PlotsLast, Zenon
  <2> QED
    BY <1>2, <2>1, <2>2, Zenon DEF Made
<1>5. ASSUME NEW c \in Range(BENCH_CRATES)
      PROVE  /\ \A e \in {"md", "csv", "gnuplot", "svg"} : ReportFile(c, e) \in DOMAIN D
             /\ HdrsIn(D, c) # {}
  <2>1. PICK i \in 1 .. N : CapturePasses[i] = Pass("latency", c)
    BY <1>5, CapturePassesAre, Zenon
  <2>2. PICK pass : pass = Pass("latency", c)
    BY Zenon
  <2>3. pass.kind = "latency" /\ pass.crate = c /\ Made(pass, D)
    BY <1>2, <2>1, <2>2, Zenon DEF Pass
  <2>4. (\A e \in {"md", "csv", "gnuplot"} : ReportFile(c, e) \in DOMAIN D) /\ HdrsIn(D, c) # {}
    BY <2>3, Zenon DEF Made
  <2>5. ReportFile(c, "gnuplot")[3] = "gnuplot" /\ Svg(ReportFile(c, "gnuplot")) = ReportFile(c, "svg")
    BY Zenon DEF ReportFile, Svg
  <2> QED
    BY <1>3, <2>4, <2>5, ZenonT(60)
<1>6. \A e \in {"raw", "svg"} : PassFile(Pass("cross_core", "ipc"), e) \in DOMAIN D
  <2>1. PICK pass : pass = Pass("cross_core", "ipc")
    BY Zenon
  <2>2. PICK i \in 1 .. N : CapturePasses[i] = pass
    BY <2>1, CapturePassesAre, ZenonT(60)
  <2>3. pass.kind = "cross_core" /\ Made(pass, D)
    BY <1>2, <2>1, <2>2 DEF Pass
  <2>4. PassFile(pass, "raw") \in DOMAIN D
    BY <2>3, Zenon DEF Made
  <2>5. /\ PassFile(pass, "raw")[1] = "cross_core" /\ PassFile(pass, "raw")[3] = "raw"
        /\ Svg(PassFile(pass, "raw")) = PassFile(pass, "svg")
    BY <2>3, Zenon DEF PassFile, Svg
  <2> QED
    BY <1>3, <2>1, <2>4, <2>5, Zenon
<1>7. Environment \in DOMAIN D
  BY Zenon DEF Complete
<1> QED
  BY <1>4, <1>5, <1>6, <1>7 DEF CaptureFiles

\* "A canonical capture with silently missing passes is worse than no capture":
\* when run_capture has returned success, and no other capture has set about
\* its directory since or was running in it (nor was it kept unread), the
\* product of every pass of every crate but the json of an allocation proof is
\* there, all of this invocation, with a curve for every report.
THEOREM SuccessIsComplete == Spec => []SuccessMeansComplete
<1> DEFINE IInv == Claimants /\ OnSchedule /\ HeldOwn /\ CapturesProgress
<1>1. Init => IInv
  <2> SUFFICES ASSUME Init PROVE IInv
    BY Zenon
  <2>1. \A p \in Procs : job[p].at = "idle"
    BY Zenon DEF Init, NoJob
  <2> QED
    BY <2>1, InitClaimants, Zenon DEF OnSchedule, HeldOwn, CapturesProgress
<1>2. IInv /\ [Next]_vars => IInv'
  BY NextPlaced, NextRuns, NextClaims, NextSole, NextOnSchedule, NextHeldOwn, NextProgress, Zenon DEF Claimants
<1>3. IInv => SuccessMeansComplete
  <2> SUFFICES ASSUME IInv, NEW p \in Procs, job[p].mode = "capture", job[p].result = "ok", NEW d, d = job[p].dir,
                      claim[d].run = job[p].run, Sole(d)
               PROVE  /\ CaptureFiles \subseteq DOMAIN fs[d]
                      /\ \A f \in DOMAIN fs[d] : fs[d][f].run = job[p].run
                      /\ \A c \in Range(BENCH_CRATES) : HdrFiles(d, c) # {}
    BY Zenon DEF SuccessMeansComplete
  <2>0. Held(p)
    BY Zenon DEF Held, Live
  <2>1. PICK D : D = fs[d]
    BY Zenon
  <2>2. Complete(D)
    BY <2>0, <2>1, Zenon DEF CapturesProgress
  <2>3. \A f \in DOMAIN fs[d] : fs[d][f].run = job[p].run
    BY <2>0, Zenon DEF SoleRun, Claimants
  <2>4. CaptureFiles \subseteq DOMAIN D /\ \A c \in Range(BENCH_CRATES) : HdrsIn(D, c) # {}
    BY <2>2, CompleteHasAll, Zenon
  <2> QED
    BY <2>1, <2>3, <2>4, ZenonT(60) DEF HdrFiles, HdrsIn
<1> QED
  BY <1>1, <1>2, <1>3, PTL DEF Spec
=============================================================================
