--------------------------- MODULE ImageBuildProofs ---------------------------
(***************************************************************************)
(* ImageBuild for every value of its constants: a request that was alone   *)
(* builds from nothing but its own scripts, and from all of them unless an *)
(* error of the walk was dropped. It is alone only while it is served:     *)
(* those before it may have failed or stopped anywhere, and left the       *)
(* process in one of their directories. So the invariant says that the     *)
(* directories of a request are untouched until it begins, that a request  *)
(* that has met nobody is the only one served, and, by the step such a     *)
(* request is at, what it finds; during the walk, that what is in the      *)
(* archive is its own and, if no error was dropped, that what is not in it *)
(* yet is still to come. One lemma per action.                             *)
(***************************************************************************)
EXTENDS ImageBuild, TLAPS

\* The request has directories of its own.
Begun(r) == req[r].pc \notin {"idle", "uploaded", "untar"}

\* A handler past its first Chdir finds the process in some directory, and one that
\* submits has something to submit.
Under ==
    /\ \A r \in Serving : req[r].pc # "untar" => cwd # None
    /\ \A r \in Requests : req[r].pc = "submit" => req[r].tgz # None

LEMMA Texts == /\ NoFiles \in [Files -> Content]
               /\ NoArchive \in Archive
               /\ \A r \in Requests : Scripts[r] \subseteq Names
               /\ Fresh \in Request
  <1>1. NoFiles \in [Files -> Content]
    BY DEF NoFiles, Content
  <1>2. NoArchive \in Archive
    BY <1>1 DEF NoArchive, Archive
  <1> QED BY <1>1, <1>2, ImageBuildAssumption DEF Fresh, Request, Pcs, Images

LEMMA ThereIsFiles ==
  ASSUME TypeOK, cwd # None, NEW in
  PROVE  There(in) \in [Files -> Content]
  <1>1. cwd \in Dirs
    BY DEF TypeOK
  <1>2. <<cwd[1], "scripts">> \in Dirs
    BY <1>1 DEF Dirs
  <1> QED BY <1>1, <1>2, Texts DEF There, TypeOK

LEMMA RecordSet ==
  ASSUME TypeOK, NEW r \in Requests, NEW v \in Request, Set(r, v)
  PROVE  req' \in [Requests -> Request]
  BY DEF TypeOK, Set

LEMMA OverIs ==
  ASSUME TypeOK, NEW r \in Requests, NEW pc \in Pcs
  PROVE  /\ Over(r, pc) \in Request
         /\ Over(r, pc).pc = pc
         /\ Over(r, pc).met = req[r].met
         /\ Over(r, pc).tgz = None
  <1>1. req[r] \in Request
    BY DEF TypeOK
  <1>2. req[r].met \in SUBSET Requests
    BY <1>1 DEF Request
  <1>3. Over(r, pc) \in Request /\ Over(r, pc).pc = pc /\ Over(r, pc).met = req[r].met
    BY <1>2, Texts DEF Over, Request
  <1>4. Over(r, pc).tgz = None
    BY DEF Over, Fresh
  <1> QED BY <1>3, <1>4

LEMMA LackingIs ==
  ASSUME TypeOK, NEW r \in Requests
  PROVE  /\ Lacking(r) \in Archive /\ ~Lacking(r).whole
         /\ Lacking(r).top = req[r].buf.top /\ Lacking(r).scripts = req[r].buf.scripts
  <1>1. req[r].buf \in Archive
    BY DEF TypeOK, Request
  <1> QED BY <1>1 DEF Lacking, Archive

\* One name is read into the archive.
LEMMA Gather ==
  ASSUME NEW b \in Archive, NEW e \in Entry, e.name # "scripts", NEW c \in Content
  PROVE  [b EXCEPT ![e.in][e.name] = c] \in Archive
  <1>1. e.name \in Files
    BY DEF Entry
  <1>2. CASE e.in = "top"
    BY <1>1, <1>2 DEF Archive
  <1>3. CASE e.in = "scripts"
    BY <1>1, <1>3 DEF Archive
  <1> QED BY <1>2, <1>3 DEF Entry

\* What a step of the walk leaves alone.
LEMMA WalkMoves ==
  ASSUME TypeOK, NEW r \in Requests, List(r) \/ Walk(r)
  PROVE  /\ req'[r].pc = "walk" /\ req'[r].image = req[r].image
         /\ req'[r].tgz = req[r].tgz /\ req'[r].met = req[r].met
         /\ \A q \in Requests \ {r} : req'[q] = req[q]
         /\ cwd' = cwd /\ disk' = disk /\ jobs' = jobs
  <1> DEFINE Walking(v) == /\ v.pc = "walk" /\ v.image = req[r].image
                           /\ v.tgz = req[r].tgz /\ v.met = req[r].met
  <1>0. req[r] \in Request
    BY DEF TypeOK
  <1>1. ASSUME List(r)  PROVE \E v : Walking(v) /\ Set(r, v)
    <2>1. Walking([req[r] EXCEPT !.pc = "walk", !.todo = Listed("top")])
      BY <1>0 DEF Request
    <2>2. Walking([req[r] EXCEPT !.pc = "walk", !.todo = {}, !.buf = Lacking(r)])
      BY <1>0 DEF Request
    <2> HIDE DEF Walking
    <2> QED BY <1>1, <2>1, <2>2 DEF List
  <1>2. ASSUME Walk(r)  PROVE \E v : Walking(v) /\ Set(r, v)
    <2>1. req[r].pc = "walk"
      BY <1>2 DEF Walk, At
    <2>2. PICK e \in req[r].todo :
            \/ Set(r, [req[r] EXCEPT !.todo = Listed("scripts") \cup (req[r].todo \ {e})])
            \/ Set(r, [req[r] EXCEPT !.todo = req[r].todo \ {e}, !.buf = Lacking(r)])
            \/ Set(r, [req[r] EXCEPT !.todo = req[r].todo \ {e},
                                     !.buf[e.in][e.name] = There(e.in)[e.name]])
            \/ Set(r, [req[r] EXCEPT !.todo = {}, !.buf = Lacking(r)])
      BY <1>2 DEF Walk
    <2>3. /\ Walking([req[r] EXCEPT !.todo = Listed("scripts") \cup (req[r].todo \ {e})])
          /\ Walking([req[r] EXCEPT !.todo = req[r].todo \ {e}, !.buf = Lacking(r)])
          /\ Walking([req[r] EXCEPT !.todo = {}, !.buf = Lacking(r)])
      BY <1>0, <2>1 DEF Request
    <2>4. Walking([req[r] EXCEPT !.todo = req[r].todo \ {e},
                              !.buf[e.in][e.name] = There(e.in)[e.name]])
      BY <1>0, <2>1 DEF Request
    <2> HIDE DEF Walking
    <2> QED BY <2>2, <2>3, <2>4
  <1>3. PICK v : Walking(v) /\ Set(r, v)
    BY <1>1, <1>2
  <1>4. req'[r] = v /\ \A q \in Requests \ {r} : req'[q] = req[q]
    BY <1>3 DEF Set, TypeOK
  <1> QED BY <1>3, <1>4 DEF List, Walk, Built

LEMMA TypeStep ==
  ASSUME TypeOK, Under, [Next]_vars
  PROVE  TypeOK'
  <1> USE DEF Built
  <1>1. ASSUME NEW r \in Requests, Upload(r)  PROVE TypeOK'
    <2>1. req[r] \in Request
      BY DEF TypeOK
    <2>2. [req[r] EXCEPT !.pc = "uploaded"] \in Request
      BY <2>1 DEF Request, Pcs
    <2>3. req' \in [Requests -> Request]
      BY <1>1, <2>2, RecordSet DEF Upload, Goto
    <2> QED BY <1>1, <2>3 DEF Upload, TypeOK
  <1>2. ASSUME NEW r \in Requests, Download(r)  PROVE TypeOK'
    <2>1. \A q \in Requests : req[q] \in Request
      BY DEF TypeOK
    <2>0. Serving \in SUBSET Requests /\ req[r] \in Request
      BY <2>1 DEF Serving
    <2>2. [req[r] EXCEPT !.pc = "untar", !.met = Serving] \in Request
      BY <2>0 DEF Request, Pcs
    <2>3. \A q \in Requests : [req[q] EXCEPT !.met = @ \cup {r}] \in Request
      BY <2>1 DEF Request
    <2> QED BY <1>2, <2>1, <2>2, <2>3 DEF Download, TypeOK
  <1>3. ASSUME NEW r \in Requests, Fail(r)  PROVE TypeOK'
    <2>1. Over(r, "failed") \in Request
      BY OverIs DEF Pcs
    <2> QED BY <1>3, <2>1 DEF Fail, TypeOK, Set
  <1>4. CASE Restart
    <2>1. \A r \in Requests : Over(r, "failed") \in Request
      BY OverIs DEF Pcs
    <2> QED BY <1>4, <2>1, Texts DEF Restart, TypeOK
  <1>5. ASSUME NEW r \in Requests, Untar(r)  PROVE TypeOK'
    <2>1. req[r] \in Request /\ <<r, "scripts">> \in Dirs
      BY DEF TypeOK, Dirs
    <2>2. [req[r] EXCEPT !.pc = "extract", !.left = Scripts[r]] \in Request
      BY <2>1, Texts DEF Request, Pcs
    <2>3. req' \in [Requests -> Request]
      BY <1>5, <2>2, RecordSet DEF Untar
    <2> QED BY <1>5, <2>1, <2>3 DEF Untar, TypeOK
  <1>6. ASSUME NEW r \in Requests, Extract(r)  PROVE TypeOK'
    <2>1. cwd \in Dirs
      BY <1>6 DEF Extract, TypeOK
    <2>2. PICK f \in req[r].left :
            /\ req' = [req EXCEPT ![r] = [req[r] EXCEPT !.left = @ \ {f}]]
            /\ \E c \in {r, "mixed"} : disk' = [disk EXCEPT ![cwd][f] = c]
      BY <1>6 DEF Extract, Set
    <2>3. req[r] \in Request /\ f \in Files
      BY <2>2 DEF TypeOK, Request, Names
    <2>4. [req[r] EXCEPT !.left = @ \ {f}] \in Request
      BY <2>3 DEF Request
    <2>5. disk' \in [Dirs -> [Files -> Content]]
      BY <2>1, <2>2, <2>3 DEF TypeOK, Content
    <2> QED BY <1>6, <2>2, <2>4, <2>5 DEF Extract, TypeOK
  <1>7. ASSUME NEW r \in Requests, CopyDockerfile(r)  PROVE TypeOK'
    <2>1. <<r, "top">> \in Dirs /\ req[r] \in Request
      BY DEF Dirs, TypeOK
    <2>2. req[r].image \in Content
      BY <2>1 DEF Request, Content
    <2>3. disk' \in [Dirs -> [Files -> Content]]
      BY <1>7, <2>1, <2>2 DEF CopyDockerfile, TypeOK
    <2>4. [req[r] EXCEPT !.pc = "chdir"] \in Request
      BY <2>1 DEF Request, Pcs
    <2> QED BY <1>7, <2>3, <2>4 DEF CopyDockerfile, TypeOK, Goto, Set
  <1>8. ASSUME NEW r \in Requests, TarChdir(r)  PROVE TypeOK'
    <2>1. req[r] \in Request /\ <<r, "top">> \in Dirs
      BY DEF TypeOK, Dirs
    <2>2. [req[r] EXCEPT !.pc = "list", !.buf = NoArchive] \in Request
      BY <2>1, Texts DEF Request, Pcs
    <2>3. req' \in [Requests -> Request]
      BY <1>8, <2>2, RecordSet DEF TarChdir
    <2> QED BY <1>8, <2>1, <2>3 DEF TarChdir, TypeOK
  <1>9. ASSUME NEW r \in Requests, List(r)  PROVE TypeOK'
    <2>1. req[r] \in Request /\ Listed("top") \subseteq Entry
      BY DEF TypeOK, Listed
    <2>2. [req[r] EXCEPT !.pc = "walk", !.todo = Listed("top")] \in Request
      BY <2>1 DEF Request, Pcs
    <2>4. [req[r] EXCEPT !.pc = "walk", !.todo = {}, !.buf = Lacking(r)] \in Request
      BY <2>1, LackingIs DEF Request, Pcs
    <2>3. req' \in [Requests -> Request]
      BY <1>9, <2>2, <2>4, RecordSet DEF List
    <2> QED BY <1>9, <2>3 DEF List, TypeOK
  <1>10. ASSUME NEW r \in Requests, Walk(r)  PROVE TypeOK'
    <2>1. req[r] \in Request /\ r \in Serving /\ req[r].pc = "walk"
      BY <1>10 DEF Walk, At, TypeOK, Serving
    <2>2. cwd # None
      BY <2>1 DEF Under
    <2>3. PICK e \in req[r].todo :
            \/ Set(r, [req[r] EXCEPT !.todo = Listed("scripts") \cup (req[r].todo \ {e})])
            \/ Set(r, [req[r] EXCEPT !.todo = req[r].todo \ {e}, !.buf = Lacking(r)])
            \/ /\ e.name # "scripts"
               /\ Set(r, [req[r] EXCEPT !.todo = req[r].todo \ {e},
                                        !.buf[e.in][e.name] = There(e.in)[e.name]])
            \/ Set(r, [req[r] EXCEPT !.todo = {}, !.buf = Lacking(r)])
      BY <1>10 DEF Walk
    <2>4. e \in Entry /\ (There(e.in)[e.name] \in Content \/ e.name = "scripts")
      BY <2>1, <2>2, ThereIsFiles DEF Request, Entry
    <2>5. req' \in [Requests -> Request]
      <3>1. CASE Set(r, [req[r] EXCEPT !.todo = Listed("scripts") \cup (req[r].todo \ {e})])
        <4>1. [req[r] EXCEPT !.todo = Listed("scripts") \cup (req[r].todo \ {e})] \in Request
          BY <2>1 DEF Request, Listed
        <4> QED BY <3>1, <4>1, RecordSet
      <3>2. CASE /\ e.name # "scripts"
                 /\ Set(r, [req[r] EXCEPT !.todo = req[r].todo \ {e},
                                          !.buf[e.in][e.name] = There(e.in)[e.name]])
        <4>1. [req[r].buf EXCEPT ![e.in][e.name] = There(e.in)[e.name]] \in Archive
          BY <2>1, <2>4, <3>2, Gather DEF Request
        <4>2. [req[r] EXCEPT !.todo = req[r].todo \ {e},
                             !.buf[e.in][e.name] = There(e.in)[e.name]]
              = [req[r] EXCEPT !.todo = req[r].todo \ {e},
                    !.buf = [req[r].buf EXCEPT ![e.in][e.name] = There(e.in)[e.name]]]
          BY <2>1 DEF Request
        <4>3. [req[r] EXCEPT !.todo = req[r].todo \ {e},
                    !.buf = [req[r].buf EXCEPT ![e.in][e.name] = There(e.in)[e.name]]]
              \in Request
          BY <2>1, <4>1 DEF Request
        <4> QED BY <3>2, <4>2, <4>3, RecordSet
      <3>3. CASE Set(r, [req[r] EXCEPT !.todo = {}, !.buf = Lacking(r)])
        <4>1. [req[r] EXCEPT !.todo = {}, !.buf = Lacking(r)] \in Request
          BY <2>1, LackingIs DEF Request
        <4> QED BY <3>3, <4>1, RecordSet
      <3>4. CASE Set(r, [req[r] EXCEPT !.todo = req[r].todo \ {e}, !.buf = Lacking(r)])
        <4>1. [req[r] EXCEPT !.todo = req[r].todo \ {e}, !.buf = Lacking(r)] \in Request
          BY <2>1, LackingIs DEF Request
        <4> QED BY <3>4, <4>1, RecordSet
      <3> QED BY <2>3, <3>1, <3>2, <3>3, <3>4
    <2> QED BY <1>10, <2>5 DEF Walk, TypeOK
  <1>11. ASSUME NEW r \in Requests, WriteTgz(r)  PROVE TypeOK'
    <2>1. PICK file \in {req[r].buf, req[r].tgz} :
            Set(r, [req[r] EXCEPT !.pc = "save", !.buf = NoArchive, !.tgz = file])
      BY <1>11 DEF WriteTgz
    <2>2. req[r] \in Request
      BY DEF TypeOK
    <2>3. [req[r] EXCEPT !.pc = "save", !.buf = NoArchive, !.tgz = file] \in Request
      BY <2>2, Texts DEF Request, Pcs
    <2>4. req' \in [Requests -> Request]
      BY <2>1, <2>3, RecordSet
    <2> QED BY <1>11, <2>4 DEF WriteTgz, TypeOK
  <1>12. ASSUME NEW r \in Requests, Save(r)  PROVE TypeOK'
    <2>0. req[r] \in Request /\ Over(r, "failed") \in Request
      BY OverIs DEF TypeOK, Pcs
    <2>1. [req[r] EXCEPT !.pc = "submit"] \in Request
      BY <2>0 DEF Request, Pcs
    <2> QED BY <1>12, <2>0, <2>1 DEF Save, TypeOK, Set
  <1>13. ASSUME NEW r \in Requests, Submit(r)  PROVE TypeOK'
    <2>0. req[r] \in Request /\ Over(r, "done") \in Request
      BY OverIs DEF TypeOK, Pcs
    <2>1. [req[r] EXCEPT !.pc = "copy", !.image = "taurus"] \in Request
      BY <2>0 DEF Request, Pcs, Images
    <2>2. Job(r) \in Build
      BY <1>13 DEF Submit, At, Under, Job, Build, TypeOK, Request
    <2> QED BY <1>13, <2>0, <2>1, <2>2 DEF Submit, TypeOK, Set
  <1>14. ASSUME NEW j \in jobs, BuildRuns(j)  PROVE TypeOK'
    BY <1>14 DEF BuildRuns, TypeOK, Build
  <1>15. ASSUME NEW r \in Requests, NEW i \in Images, Pull(r, i)  PROVE TypeOK'
    BY <1>15 DEF Pull, TypeOK
  <1>16. CASE UNCHANGED vars
    BY <1>16 DEF vars, TypeOK
  <1> QED BY <1>1, <1>2, <1>3, <1>4, <1>5, <1>6, <1>7, <1>8, <1>9, <1>10, <1>11, <1>12,
             <1>13, <1>14, <1>15, <1>16 DEF Next

LEMMA UnderStep ==
  ASSUME TypeOK, Under, [Next]_vars
  PROVE  Under'
  <1>0. \A r \in Requests : req[r] \in Request
    BY DEF TypeOK
  <1>1. ASSUME NEW r \in Requests, Upload(r) \/ Download(r)  PROVE Under'
    <2>1. \A q \in Requests : \/ req'[q].pc \in {"uploaded", "untar"}
                              \/ req'[q].pc = req[q].pc /\ req'[q].tgz = req[q].tgz
      <3>1. CASE Upload(r)
        BY <1>0, <3>1 DEF Upload, Goto, Set, TypeOK, Request
      <3>2. CASE Download(r)
        BY <1>0, <3>2 DEF Download, TypeOK, Request
      <3> QED BY <1>1, <3>1, <3>2
    <2>2. cwd' = cwd
      BY <1>1 DEF Upload, Download
    <2> QED BY <2>1, <2>2 DEF Under, Serving
  <1>2. ASSUME NEW r \in Requests, Fail(r)  PROVE Under'
    <2>1. Over(r, "failed").pc = "failed"
      BY OverIs DEF Pcs
    <2> QED BY <1>2, <2>1 DEF Fail, Set, TypeOK, Under, Serving
  <1>3. CASE Restart
    <2>1. \A r \in Requests : Over(r, "failed").pc = "failed"
      BY OverIs DEF Pcs
    <2> QED BY <1>3, <2>1 DEF Restart, TypeOK, Under, Serving
  <1>4. ASSUME NEW r \in Requests, Untar(r) \/ TarChdir(r)  PROVE Under'
    <2>1. <<r, "scripts">> \in Dirs /\ <<r, "top">> \in Dirs
      BY DEF Dirs
    <2>2. cwd' # None
      BY <1>4, <2>1, ImageBuildAssumption DEF Untar, TarChdir
    <2>3. \A q \in Requests : \/ req'[q].pc \in {"extract", "list"}
                              \/ req'[q] = req[q]
      <3>1. CASE Untar(r)
        BY <1>0, <3>1 DEF Untar, Set, TypeOK, Request
      <3>2. CASE TarChdir(r)
        BY <1>0, <3>2 DEF TarChdir, Set, TypeOK, Request
      <3> QED BY <1>4, <3>1, <3>2
    <2> QED BY <2>2, <2>3 DEF Under, Serving
  <1>5. ASSUME NEW r \in Requests,
               Extract(r) \/ CopyDockerfile(r) \/ List(r) \/ Walk(r) \/ WriteTgz(r)
        PROVE  Under'
    <2>1. /\ r \in Serving /\ req[r].pc # "untar" /\ cwd' = cwd
          /\ req[r] \in Request
      BY <1>0, <1>5 DEF Extract, CopyDockerfile, List, Walk, WriteTgz, At, Serving
    <2>2. req'[r].pc # "submit" /\ \A q \in Requests \ {r} : req'[q] = req[q]
      <3>1. CASE Extract(r)
        BY <2>1, <3>1 DEF Extract, At, Set, TypeOK, Request
      <3>2. CASE CopyDockerfile(r)
        BY <2>1, <3>2 DEF CopyDockerfile, Goto, Set, TypeOK, Request
      <3>3. CASE List(r) \/ Walk(r)
        BY <3>3, WalkMoves
      <3>5. CASE WriteTgz(r)
        BY <2>1, <3>5 DEF WriteTgz, Set, TypeOK, Request
      <3> QED BY <1>5, <3>1, <3>2, <3>3, <3>5
    <2>3. cwd' # None
      BY <2>1 DEF Under
    <2>4. \A q \in Requests : req'[q].pc = "submit" => req'[q].tgz # None
      BY <2>2 DEF Under
    <2> QED BY <2>3, <2>4 DEF Under
  <1>6. ASSUME NEW r \in Requests, Save(r) \/ Submit(r)  PROVE Under'
    <2>1. Over(r, "failed").pc = "failed" /\ Over(r, "done").pc = "done"
      BY OverIs DEF Pcs
    <2>2. cwd' = cwd /\ r \in Serving /\ req[r].pc # "untar" /\ req[r] \in Request
      BY <1>0, <1>6 DEF Save, Submit, At, Serving
    <2>3. req'[r].pc = "submit" => req'[r].tgz # None
      <3>1. CASE Save(r)
        BY <2>1, <2>2, <3>1 DEF Save, Set, TypeOK, Request
      <3>2. CASE Submit(r)
        BY <2>1, <2>2, <3>2 DEF Submit, Set, TypeOK, Request
      <3> QED BY <1>6, <3>1, <3>2
    <2>4. \A q \in Requests \ {r} : req'[q] = req[q]
      BY <1>6 DEF Save, Submit, Set, TypeOK
    <2>5. cwd' # None
      BY <2>2 DEF Under
    <2> QED BY <2>3, <2>4, <2>5 DEF Under
  <1>7. CASE UNCHANGED <<req, cwd>>
    BY <1>7 DEF Under, Serving
  <1>8. ASSUME NEW j \in jobs, BuildRuns(j)  PROVE UNCHANGED <<req, cwd>>
    BY <1>8 DEF BuildRuns
  <1>9. ASSUME NEW r \in Requests, NEW i \in Images, Pull(r, i)  PROVE UNCHANGED <<req, cwd>>
    BY <1>9 DEF Pull
  <1>10. CASE UNCHANGED vars
    BY <1>7, <1>10 DEF vars
  <1> QED BY <1>1, <1>2, <1>3, <1>4, <1>5, <1>6, <1>7, <1>8, <1>9, <1>10 DEF Next

LEMMA InitTypes == Init => TypeOK /\ Under
  BY Texts DEF Init, TypeOK, Under, Serving, Fresh, Images, Dirs, Build

-----------------------------------------------------------------------------
(* The inductive invariant *)

\* A request that met nobody is the only one that is served.
AloneInv == \A r \in Serving : req[r].met = {} => Serving = {r}

\* Nobody touches the directories of a request before that request does.
Clean(r) == /\ req[r].image = "locust" /\ req[r].tgz = None
            /\ \A d \in {"top", "scripts"} : cwd # <<r, d>> /\ disk[<<r, d>>] = NoFiles

CleanInv ==
    /\ \A r \in Requests : ~Begun(r) => Clean(r)
    /\ \A j \in jobs : Begun(j.request)

DockerfileEntry == [in |-> "top", name |-> "Dockerfile"]
ScriptsEntry    == [in |-> "top", name |-> "scripts"]
ScriptEntry(f)  == [in |-> "scripts", name |-> f]

Dockerfile(i) == [f \in Files |-> IF f = "Dockerfile" THEN i ELSE None]
Some(r, fs) == [f \in Files |-> IF f \in fs THEN r ELSE None]

Ours(r, a) == OnlyOwn(r, a) /\ a.top["Dockerfile"] \in {"locust", req[r].image, None}

\* What is in the archive is ours; without an error, what is not is still to come.
Gathered(r) ==
    /\ req[r].todo \subseteq {DockerfileEntry, ScriptsEntry}
                             \cup {ScriptEntry(f) : f \in Scripts[r]}
    /\ ScriptsEntry \in req[r].todo =>
          \A f \in Scripts[r] : ScriptEntry(f) \notin req[r].todo
    /\ Ours(r, req[r].buf)
    /\ req[r].buf.whole =>
          /\ req[r].buf.top = IF DockerfileEntry \in req[r].todo THEN NoFiles
                              ELSE Dockerfile(req[r].image)
          /\ req[r].buf.scripts =
                Some(r, IF ScriptsEntry \in req[r].todo THEN {}
                        ELSE {f \in Scripts[r] : ScriptEntry(f) \notin req[r].todo})

Sound(r, a) ==
    /\ Ours(r, a)
    /\ a.whole => a.scripts = Own(r) /\ a.top["Dockerfile"] \in {"locust", req[r].image}

\* What a request that met nobody finds, by the step it is at.
Work(r) ==
    /\ req[r].pc = "extract" =>
          /\ cwd = <<r, "scripts">> /\ req[r].left \subseteq Scripts[r]
          /\ disk[<<r, "scripts">>] = Some(r, Scripts[r] \ req[r].left)
          /\ disk[<<r, "top">>] = NoFiles
    /\ req[r].pc \in {"copy", "chdir", "list", "walk", "save", "submit"} =>
          disk[<<r, "scripts">>] = Own(r)
    /\ req[r].pc = "copy" => disk[<<r, "top">>] = Dockerfile("locust")
    /\ req[r].pc \in {"chdir", "list", "walk", "save", "submit"} =>
          disk[<<r, "top">>] = Dockerfile(req[r].image)
    /\ req[r].pc \in {"list", "walk"} => cwd = <<r, "top">>
    /\ req[r].pc = "list" => req[r].buf = NoArchive
    /\ req[r].pc = "walk" => Gathered(r)
    /\ req[r].tgz # None => Sound(r, req[r].tgz)

WorkInv == \A r \in Serving : req[r].met = {} => Work(r)

IInv == TypeOK /\ Under /\ AloneInv /\ CleanInv /\ WorkInv /\ ServedAloneIsOwn

-----------------------------------------------------------------------------
(* Who moves *)

Handles(r) == \/ Untar(r) \/ Extract(r) \/ CopyDockerfile(r) \/ TarChdir(r) \/ List(r)
              \/ Walk(r) \/ WriteTgz(r) \/ Save(r) \/ Submit(r)

Elsewhere == UNCHANGED <<req, cwd, disk>> /\ jobs' \subseteq jobs

LEMMA Steps ==
  ASSUME [Next]_vars
  PROVE  \/ Restart
         \/ Elsewhere
         \/ \E r \in Requests : Upload(r) \/ Download(r) \/ Fail(r) \/ Handles(r)
  <1>1. ASSUME NEW j \in jobs, BuildRuns(j)  PROVE Elsewhere
    BY <1>1 DEF BuildRuns, Elsewhere
  <1>2. ASSUME NEW r \in Requests, NEW i \in Images, Pull(r, i)  PROVE Elsewhere
    BY <1>2 DEF Pull, Elsewhere
  <1>3. CASE UNCHANGED vars
    BY <1>3 DEF vars, Elsewhere
  <1> QED BY <1>1, <1>2, <1>3 DEF Next, Handles

\* A step of a handler is that handler's.
LEMMA OwnStep ==
  ASSUME TypeOK, NEW r \in Requests, Handles(r)
  PROVE  /\ r \in Serving
         /\ \A q \in Requests \ {r} : req'[q] = req[q]
         /\ req'[r].met = req[r].met
         /\ req'[r].pc \notin {"idle", "uploaded", "untar"}
  <1>0. req[r] \in Request /\ req \in [Requests -> Request]
    BY DEF TypeOK
  <1>1. r \in Serving
    BY DEF Handles, Untar, Extract, CopyDockerfile, TarChdir, List, Walk, WriteTgz, Save,
           Submit, At, Serving
  <1>2. \A q \in Requests \ {r} : req'[q] = req[q]
    BY <1>0 DEF Handles, Untar, Extract, CopyDockerfile, TarChdir, List, Walk, WriteTgz,
                Save, Submit, Set, Goto
  <1>3. /\ req'[r].met = req[r].met
        /\ req'[r].pc \notin {"idle", "uploaded", "untar"}
    <2> USE <1>0 DEF Set, At, Request
    <2>1. CASE Untar(r)
      BY <2>1 DEF Untar
    <2>2. CASE Extract(r)
      BY <2>2 DEF Extract
    <2>3. CASE CopyDockerfile(r)
      BY <2>3 DEF CopyDockerfile, Goto
    <2>4. CASE TarChdir(r)
      BY <2>4 DEF TarChdir
    <2>5. CASE List(r) \/ Walk(r)
      BY <2>5, WalkMoves
    <2>7. CASE WriteTgz(r)
      BY <2>7 DEF WriteTgz
    <2>8. CASE Save(r)
      <3>1. Over(r, "failed").pc = "failed" /\ Over(r, "failed").met = req[r].met
        BY OverIs DEF Pcs
      <3>2. CASE req[r].tgz = None
        BY <2>8, <3>1, <3>2 DEF Save
      <3>3. CASE req[r].tgz # None
        BY <2>8, <3>3 DEF Save
      <3> QED BY <3>2, <3>3
    <2>9. CASE Submit(r)
      <3>1. Over(r, "done").pc = "done" /\ Over(r, "done").met = req[r].met
        BY OverIs DEF Pcs
      <3> QED BY <2>9, <3>1 DEF Submit
    <2> QED BY <2>1, <2>2, <2>3, <2>4, <2>5, <2>7, <2>8, <2>9 DEF Handles
  <1> QED BY <1>1, <1>2, <1>3

SameWork(q) == /\ req'[q].pc = req[q].pc /\ req'[q].image = req[q].image
               /\ req'[q].tgz = req[q].tgz

\* How a request looks after a step that is not its own.
LEMMA OthersStep ==
  ASSUME TypeOK, NEW r \in Requests, Upload(r) \/ Download(r) \/ Fail(r)
  PROVE  /\ cwd' = cwd /\ disk' = disk /\ jobs' = jobs
         /\ Upload(r) => req'[r].pc = "uploaded" /\ req'[r].image = req[r].image
                         /\ req'[r].tgz = req[r].tgz /\ ~Begun(r)
                         /\ \A q \in Requests \ {r} : req'[q] = req[q]
         /\ Fail(r) => req'[r].pc = "failed" /\ req'[r].met = req[r].met
                       /\ \A q \in Requests \ {r} : req'[q] = req[q]
         /\ Download(r) => /\ ~Begun(r) /\ req'[r].pc = "untar" /\ req'[r].met = Serving
                           /\ req'[r].image = req[r].image /\ req'[r].tgz = req[r].tgz
                           /\ \A q \in Serving : req'[q].met = req[q].met \cup {r}
                           /\ \A q \in Requests \ {r} : SameWork(q)
  <1>0. req \in [Requests -> Request] /\ req[r] \in Request
    BY DEF TypeOK
  <1>1. cwd' = cwd /\ disk' = disk /\ jobs' = jobs
    BY DEF Upload, Download, Fail, Built
  <1>2. ASSUME Upload(r)
        PROVE  req'[r].pc = "uploaded" /\ req'[r].image = req[r].image
               /\ req'[r].tgz = req[r].tgz /\ ~Begun(r)
               /\ \A q \in Requests \ {r} : req'[q] = req[q]
    BY <1>0, <1>2 DEF Upload, Goto, Set, At, Begun, Request
  <1>3. ASSUME Fail(r)
        PROVE  req'[r].pc = "failed" /\ req'[r].met = req[r].met
               /\ \A q \in Requests \ {r} : req'[q] = req[q]
    <2>1. Over(r, "failed").pc = "failed" /\ Over(r, "failed").met = req[r].met
      BY OverIs DEF Pcs
    <2> QED BY <1>0, <1>3, <2>1 DEF Fail, Set
  <1>4. ASSUME Download(r)
        PROVE  /\ ~Begun(r) /\ req'[r].pc = "untar" /\ req'[r].met = Serving
               /\ req'[r].image = req[r].image /\ req'[r].tgz = req[r].tgz
               /\ \A q \in Serving : req'[q].met = req[q].met \cup {r}
               /\ \A q \in Requests \ {r} : SameWork(q)
    <2>1. r \notin Serving
      BY <1>4 DEF Download, At, Serving
    <2>2. ~Begun(r) /\ req'[r].pc = "untar" /\ req'[r].met = Serving
          /\ req'[r].image = req[r].image /\ req'[r].tgz = req[r].tgz
      BY <1>0, <1>4 DEF Download, At, Begun, Request
    <2>3. ASSUME NEW q \in Serving  PROVE req'[q].met = req[q].met \cup {r}
      <3>1. req[q] \in Request /\ q \in Requests /\ q # r
        BY <1>0, <2>1 DEF Serving
      <3> QED BY <1>4, <3>1 DEF Download, Request
    <2>4. ASSUME NEW q \in Requests \ {r}
          PROVE  SameWork(q)
      <3>1. req[q] \in Request
        BY <1>0
      <3> QED BY <1>4, <3>1 DEF Download, Request, SameWork
    <2> QED BY <2>2, <2>3, <2>4
  <1> QED BY <1>1, <1>2, <1>3, <1>4

-----------------------------------------------------------------------------
(* Every part of the invariant is kept *)

LEMMA AloneStep ==
  ASSUME TypeOK, AloneInv, [Next]_vars
  PROVE  AloneInv'
  <1> SUFFICES ASSUME NEW q \in Requests, q \in Serving', req'[q].met = {},
                      NEW p \in Requests, p \in Serving'
               PROVE  p = q
    BY DEF AloneInv, Serving
  <1>1. CASE Restart
    <2>1. \A r \in Requests : Over(r, "failed").pc = "failed"
      BY OverIs DEF Pcs
    <2>2. Serving' = {}
      BY <1>1, <2>1 DEF Restart, Serving
    <2> QED BY <2>2
  <1>2. CASE Elsewhere
    BY <1>2 DEF Elsewhere, AloneInv, Serving
  <1>3. ASSUME NEW r \in Requests, Upload(r) \/ Fail(r) \/ Handles(r)  PROVE p = q
    <2>1. /\ req'[r].met = req[r].met \/ r \notin Serving'
          /\ r \in Serving' => r \in Serving
          /\ \A s \in Requests \ {r} : req'[s] = req[s]
      <3>1. CASE Upload(r) \/ Fail(r)
        BY <3>1, OthersStep DEF Serving
      <3>2. CASE Handles(r)
        BY <3>2, OwnStep
      <3> QED BY <1>3, <3>1, <3>2
    <2>2. q \in Serving /\ p \in Serving /\ req[q].met = {}
      BY <2>1 DEF Serving
    <2> QED BY <2>2 DEF AloneInv
  <1>4. ASSUME NEW r \in Requests, Download(r)  PROVE p = q
    <2>1. \A s \in Requests \ {r} : req'[s].pc = req[s].pc
      BY <1>4, OthersStep DEF SameWork
    <2>2. \A s \in Serving : req'[s].met # {}
      BY <1>4, OthersStep
    <2>3. q = r /\ Serving = {}
      BY <1>4, <2>1, <2>2, OthersStep DEF Serving
    <2> QED BY <2>1, <2>3 DEF Serving
  <1> QED BY <1>1, <1>2, <1>3, <1>4, Steps

\* Where a handler writes and goes.
LEMMA Footprint ==
  ASSUME TypeOK, Under, NEW r \in Requests, Handles(r)
  PROVE  /\ cwd' \in {cwd, <<r, "top">>, <<r, "scripts">>}
         /\ \A d \in Dirs \ {<<r, "top">>, cwd} : disk'[d] = disk[d]
  BY DEF Handles, Untar, Extract, CopyDockerfile, TarChdir, List, Walk, WriteTgz, Save,
         Submit, TypeOK

LEMMA CleanStep ==
  ASSUME TypeOK, Under, CleanInv, [Next]_vars
  PROVE  CleanInv'
  <1>0. \A r \in Requests, d \in {"top", "scripts"} : <<r, d>> \in Dirs
    BY DEF Dirs
  <1>00. \A j \in jobs : j.request \in Requests
    BY DEF TypeOK, Build
  <1>1. CASE Restart
    <2>1. \A r \in Requests : Over(r, "failed").pc = "failed"
      BY OverIs DEF Pcs
    <2>2. \A r \in Requests : Begun(r) => Begun(r)'
      BY <1>1, <2>1 DEF Restart, Begun, Serving
    <2>3. \A r \in Requests : ~Begun(r)' => ~Begun(r) /\ req'[r] = req[r]
      BY <1>1, <2>1 DEF Restart, Begun, Serving
    <2>4. cwd' = None /\ disk' = [d \in Dirs |-> NoFiles] /\ jobs' = jobs
      BY <1>1 DEF Restart, Built
    <2>5. ASSUME NEW r \in Requests, ~Begun(r)'  PROVE Clean(r)'
      BY <1>0, <2>2, <2>3, <2>4, <2>5, ImageBuildAssumption DEF CleanInv, Clean
    <2> QED BY <1>00, <2>2, <2>4, <2>5 DEF CleanInv
  <1>2. CASE Elsewhere
    BY <1>2 DEF Elsewhere, CleanInv, Clean, Begun
  <1>3. ASSUME NEW r \in Requests, Upload(r) \/ Download(r) \/ Fail(r)  PROVE CleanInv'
    <2>1. cwd' = cwd /\ disk' = disk /\ jobs' = jobs
      BY <1>3, OthersStep
    <2>2. ASSUME NEW q \in Requests
          PROVE  /\ Begun(q) => Begun(q)'
                 /\ ~Begun(q)' => ~Begun(q) /\ req'[q].image = req[q].image
                                  /\ req'[q].tgz = req[q].tgz
      <3>2. CASE q = r
        BY <1>3, <3>2, OthersStep DEF Begun
      <3>3. CASE q # r
        BY <1>3, <3>3, OthersStep DEF Begun, SameWork
      <3> QED BY <3>2, <3>3
    <2> QED BY <1>00, <2>1, <2>2 DEF CleanInv, Clean
  <1>4. ASSUME NEW r \in Requests, Handles(r)  PROVE CleanInv'
    <2>1. /\ Begun(r)'
          /\ \A q \in Requests \ {r} : req'[q] = req[q]
      BY <1>4, OwnStep DEF Begun
    <2>2. \A q \in Requests : ~Begun(q)' => q # r /\ ~Begun(q)
      BY <2>1 DEF Begun
    <2>3. ASSUME NEW q \in Requests, ~Begun(q)', NEW d \in {"top", "scripts"}
          PROVE  cwd' # <<q, d>> /\ disk'[<<q, d>>] = NoFiles
      <3>1. Clean(q) /\ q # r /\ <<q, d>> \in Dirs
        BY <1>0, <2>2, <2>3 DEF CleanInv
      <3>2. <<q, d>> # cwd /\ <<q, d>> # <<r, "top">> /\ <<q, d>> # <<r, "scripts">>
        BY <3>1 DEF Clean
      <3> QED BY <1>4, <3>1, <3>2, Footprint DEF Clean
    <2>4. ASSUME NEW q \in Requests, ~Begun(q)'  PROVE Clean(q)'
      BY <2>1, <2>2, <2>3, <2>4 DEF CleanInv, Clean
    <2>5. \A j \in jobs' : j \in jobs \/ j.request = r
      <3>1. CASE Submit(r)
        BY <3>1 DEF Submit, Job
      <3>2. CASE ~Submit(r)
        BY <1>4, <3>2 DEF Handles, Untar, Extract, CopyDockerfile, TarChdir, List, Walk,
                          WriteTgz, Save, Built
      <3> QED BY <3>1, <3>2
    <2>6. \A j \in jobs' : Begun(j.request)'
      BY <1>00, <2>1, <2>5 DEF CleanInv, Begun
    <2> QED BY <2>4, <2>6 DEF CleanInv
  <1> QED BY <1>1, <1>2, <1>3, <1>4, Steps

-----------------------------------------------------------------------------
(* What a handler does when it is alone *)

LEMMA FileNames ==
  /\ "Dockerfile" \in Files /\ "scripts" \notin Files
  /\ \A r \in Requests : Scripts[r] \subseteq Files /\ "Dockerfile" \notin Scripts[r]
                         /\ Scripts[r] \in SUBSET Names
  /\ DockerfileEntry \in Entry /\ ScriptsEntry \in Entry
  /\ \A r \in Requests : \A f \in Scripts[r] : ScriptEntry(f) \in Entry
  /\ \A r \in Requests : r # None
  /\ \A i \in Images : i # None
  <1>1. "Dockerfile" \in Files /\ "scripts" \notin Files
    BY ImageBuildAssumption DEF Files
  <1>2. \A r \in Requests : Scripts[r] \subseteq Files /\ "Dockerfile" \notin Scripts[r]
                            /\ Scripts[r] \in SUBSET Names
    BY ImageBuildAssumption DEF Names
  <1>3. DockerfileEntry \in Entry /\ ScriptsEntry \in Entry
    BY <1>1 DEF Entry, DockerfileEntry, ScriptsEntry
  <1>4. \A r \in Requests : \A f \in Scripts[r] : ScriptEntry(f) \in Entry
    BY <1>2 DEF Entry, ScriptEntry
  <1> QED BY <1>1, <1>2, <1>3, <1>4, ImageBuildAssumption

LEMMA OwnIsSome == ASSUME NEW r \in Requests PROVE Some(r, Scripts[r]) = Own(r)
  BY DEF Some, Own

LEMMA NothingYet == ASSUME NEW r PROVE Some(r, {}) = NoFiles
  BY DEF Some, NoFiles

LEMMA UntarWork ==
  ASSUME TypeOK, CleanInv, NEW r \in Requests, Untar(r)
  PROVE  Work(r)'
  <1>1. req[r] \in Request
    BY DEF TypeOK
  <1>2. Clean(r)
    BY DEF Untar, At, CleanInv, Begun
  <1>3. /\ req'[r].pc = "extract" /\ req'[r].left = Scripts[r] /\ req'[r].tgz = None
        /\ cwd' = <<r, "scripts">> /\ disk' = disk
    BY <1>1, <1>2 DEF Untar, Set, TypeOK, Request, Clean
  <1>4. Some(r, Scripts[r] \ Scripts[r]) = NoFiles
    BY NothingYet
  <1> QED BY <1>2, <1>3, <1>4 DEF Work, Clean

LEMMA ExtractWork ==
  ASSUME TypeOK, NEW r \in Requests, Work(r), Extract(r)
  PROVE  Work(r)'
  <1>1. req[r] \in Request /\ req[r].pc = "extract"
    BY DEF TypeOK, Extract, At
  <1>2. /\ cwd = <<r, "scripts">> /\ req[r].left \subseteq Scripts[r]
        /\ disk[cwd] = Some(r, Scripts[r] \ req[r].left)
        /\ disk[<<r, "top">>] = NoFiles
    BY <1>1 DEF Work
  <1>3. PICK f \in req[r].left :
          /\ Set(r, [req[r] EXCEPT !.left = @ \ {f}])
          /\ \E c \in IF disk[cwd][f] \in {None, r} THEN {r} ELSE {r, "mixed"} :
                 disk' = [disk EXCEPT ![cwd][f] = c]
    BY DEF Extract
  <1>4. f \in Scripts[r] /\ f \in Files /\ disk[cwd][f] = None
    BY <1>2, <1>3, FileNames DEF Some
  <1>5. disk' = [disk EXCEPT ![cwd][f] = r]
    BY <1>3, <1>4
  <1>6. <<r, "scripts">> \in Dirs /\ <<r, "top">> \in Dirs
    BY DEF Dirs
  <1>7. disk'[<<r, "scripts">>] = [disk[cwd] EXCEPT ![f] = r] /\ disk'[<<r, "top">>] = NoFiles
    BY <1>2, <1>5, <1>6 DEF TypeOK
  <1>8. [Some(r, Scripts[r] \ req[r].left) EXCEPT ![f] = r]
        = Some(r, Scripts[r] \ (req[r].left \ {f}))
    BY <1>3, <1>4 DEF Some
  <1>9. /\ req'[r].pc = "extract" /\ req'[r].left = req[r].left \ {f}
        /\ req'[r].tgz = req[r].tgz /\ req'[r].image = req[r].image /\ cwd' = cwd
    BY <1>1, <1>3 DEF Set, TypeOK, Request, Extract
  <1> QED BY <1>2, <1>7, <1>8, <1>9 DEF Work, Sound, Ours

LEMMA CopyWork ==
  ASSUME TypeOK, NEW r \in Requests, Work(r), CopyDockerfile(r)
  PROVE  Work(r)'
  <1>1. req[r] \in Request /\ req[r].image \in Images
    BY DEF TypeOK, Request
  <1>2. <<r, "scripts">> \in Dirs /\ <<r, "top">> \in Dirs
    BY DEF Dirs
  <1>3. disk[<<r, "scripts">>] = Own(r)
    <2>1. CASE req[r].pc = "extract" /\ req[r].left = {}
      BY <2>1, OwnIsSome DEF Work
    <2>2. CASE req[r].pc = "copy"
      BY <2>2 DEF Work
    <2> QED BY <2>1, <2>2 DEF CopyDockerfile, At
  <1>4. disk[<<r, "top">>] = NoFiles \/ disk[<<r, "top">>] = Dockerfile("locust")
    BY DEF CopyDockerfile, At, Work
  <1>5. disk' = [disk EXCEPT ![<<r, "top">>]["Dockerfile"] = req[r].image]
    BY DEF CopyDockerfile
  <1>6. disk'[<<r, "scripts">>] = Own(r)
    BY <1>2, <1>3, <1>5 DEF TypeOK
  <1>7. disk'[<<r, "top">>] = Dockerfile(req[r].image)
    BY <1>2, <1>4, <1>5, FileNames DEF TypeOK, NoFiles, Dockerfile
  <1>8. /\ req'[r].pc = "chdir" /\ req'[r].image = req[r].image /\ req'[r].tgz = req[r].tgz
    BY <1>1 DEF CopyDockerfile, Goto, Set, TypeOK, Request
  <1> QED BY <1>6, <1>7, <1>8 DEF Work, Sound, Ours

LEMMA ChdirWork ==
  ASSUME TypeOK, NEW r \in Requests, Work(r), TarChdir(r)
  PROVE  Work(r)'
  <1>1. req[r] \in Request /\ req[r].pc = "chdir"
    BY DEF TypeOK, TarChdir, At
  <1>2. /\ req'[r].pc = "list" /\ req'[r].image = req[r].image /\ req'[r].tgz = req[r].tgz
        /\ req'[r].buf = NoArchive /\ cwd' = <<r, "top">> /\ disk' = disk
    BY <1>1 DEF TarChdir, Set, TypeOK, Request
  <1> QED BY <1>1, <1>2 DEF Work, Sound, Ours

\* In the directory of a request the walk finds the Dockerfile and the scripts.
LEMMA Found ==
  ASSUME TypeOK, NEW r \in Requests, cwd = <<r, "top">>, disk[<<r, "scripts">>] = Own(r),
         NEW i \in Images, disk[<<r, "top">>] = Dockerfile(i)
  PROVE  /\ HasScripts
         /\ There("top") = Dockerfile(i) /\ There("scripts") = Own(r)
         /\ Listed("top") = {DockerfileEntry, ScriptsEntry}
         /\ Listed("scripts") = {ScriptEntry(f) : f \in Scripts[r]}
  <1>1. HasScripts /\ There("top") = Dockerfile(i) /\ There("scripts") = Own(r)
    BY DEF HasScripts, There
  <1>2. ASSUME NEW e \in Entry, e.in = "top"
        PROVE  e \in Listed("top") <=> e \in {DockerfileEntry, ScriptsEntry}
    <2>1. e = [in |-> "top", name |-> e.name]
      BY <1>2 DEF Entry
    <2>2. e.name \in Files \cup {"scripts"}
      BY DEF Entry
    <2>3. CASE e.name = "scripts"
      BY <1>1, <1>2, <2>1, <2>3 DEF Listed, ScriptsEntry
    <2>4. CASE e.name \in Files
      <3>1. e \in Listed("top") <=> Dockerfile(i)[e.name] # None
        BY <1>1, <1>2, <2>4, FileNames DEF Listed
      <3>2. Dockerfile(i)[e.name] # None <=> e.name = "Dockerfile"
        BY <2>4, FileNames DEF Dockerfile
      <3>3. e \in {DockerfileEntry, ScriptsEntry} <=> e.name = "Dockerfile"
        BY <2>1, <2>4, FileNames DEF DockerfileEntry, ScriptsEntry
      <3> QED BY <3>1, <3>2, <3>3
    <2> QED BY <2>2, <2>3, <2>4
  <1>3. Listed("top") = {DockerfileEntry, ScriptsEntry}
    <2>1. \A e \in Listed("top") : e \in Entry /\ e.in = "top"
      BY DEF Listed
    <2>2. \A e \in {DockerfileEntry, ScriptsEntry} : e \in Entry /\ e.in = "top"
      BY FileNames DEF DockerfileEntry, ScriptsEntry
    <2> QED BY <1>2, <2>1, <2>2
  <1>4. ASSUME NEW e \in Entry, e.in = "scripts"
        PROVE  e \in Listed("scripts") <=> e \in {ScriptEntry(f) : f \in Scripts[r]}
    <2>1. e = ScriptEntry(e.name)
      BY <1>4 DEF Entry, ScriptEntry
    <2>2. e.name \in Files \cup {"scripts"}
      BY DEF Entry
    <2>3. \A f \in Scripts[r] : ScriptEntry(f) = e => f = e.name
      BY DEF ScriptEntry
    <2>4. e \in {ScriptEntry(f) : f \in Scripts[r]} <=> e.name \in Scripts[r]
      BY <2>1, <2>3
    <2>5. CASE e.name = "scripts"
      BY <1>4, <2>4, <2>5, FileNames DEF Listed
    <2>6. CASE e.name \in Files
      <3>1. e \in Listed("scripts") <=> Own(r)[e.name] # None
        BY <1>1, <1>4, <2>6, FileNames DEF Listed
      <3>2. Own(r)[e.name] # None <=> e.name \in Scripts[r]
        BY <2>6, FileNames DEF Own
      <3> QED BY <2>4, <3>1, <3>2
    <2> QED BY <2>2, <2>5, <2>6
  <1>5. Listed("scripts") = {ScriptEntry(f) : f \in Scripts[r]}
    <2>1. \A e \in Listed("scripts") : e \in Entry /\ e.in = "scripts"
      BY DEF Listed
    <2>2. \A f \in Scripts[r] : ScriptEntry(f) \in Entry /\ ScriptEntry(f).in = "scripts"
      BY FileNames DEF ScriptEntry
    <2> QED BY <1>4, <2>1, <2>2
  <1> QED BY <1>1, <1>3, <1>5

LEMMA EmptyIsOurs == ASSUME NEW r \in Requests PROVE Ours(r, NoArchive)
  BY FileNames DEF Ours, OnlyOwn, NoArchive, NoFiles

LEMMA ListWork ==
  ASSUME TypeOK, NEW r \in Requests, Work(r), List(r)
  PROVE  Work(r)'
  <1>1. req[r] \in Request /\ req[r].pc = "list" /\ req[r].image \in Images
    BY DEF TypeOK, List, At, Request
  <1>2. /\ cwd = <<r, "top">> /\ disk[<<r, "scripts">>] = Own(r)
        /\ disk[<<r, "top">>] = Dockerfile(req[r].image) /\ req[r].buf = NoArchive
    BY <1>1 DEF Work
  <1>3. Listed("top") = {DockerfileEntry, ScriptsEntry}
    BY <1>1, <1>2, Found
  <1>4. /\ req'[r].pc = "walk" /\ req'[r].image = req[r].image /\ req'[r].tgz = req[r].tgz
        /\ cwd' = cwd /\ disk' = disk
    BY WalkMoves
  <1>5. \/ req'[r].buf = NoArchive /\ req'[r].todo = Listed("top")
        \/ req'[r].buf = Lacking(r) /\ req'[r].todo = {}
    <2>1. \/ req'[r] = [req[r] EXCEPT !.pc = "walk", !.todo = Listed("top")]
          \/ req'[r] = [req[r] EXCEPT !.pc = "walk", !.todo = {}, !.buf = Lacking(r)]
      BY DEF List, Set, TypeOK
    <2> QED BY <1>1, <1>2, <2>1 DEF Request
  <1>6. Ours(r, NoArchive)
    BY EmptyIsOurs
  <1>7. Gathered(r)'
    <2>1. CASE req'[r].buf = NoArchive /\ req'[r].todo = Listed("top")
      <3>1. \A f \in Scripts[r] : ScriptEntry(f) \notin {DockerfileEntry, ScriptsEntry}
        BY DEF ScriptEntry, DockerfileEntry, ScriptsEntry
      <3> QED BY <1>3, <1>4, <1>6, <2>1, <3>1, NothingYet
              DEF Gathered, Ours, OnlyOwn, NoArchive
    <2>2. CASE req'[r].buf = Lacking(r) /\ req'[r].todo = {}
      BY <1>2, <1>4, <1>6, <2>2, LackingIs DEF Gathered, Ours, OnlyOwn
    <2> QED BY <1>5, <2>1, <2>2
  <1> QED BY <1>1, <1>2, <1>4, <1>7 DEF Work, Sound, Ours

\* An entry of the walk of a request that is alone: where it is and what it adds.
LEMMA WalkWork ==
  ASSUME TypeOK, NEW r \in Requests, Work(r), Walk(r)
  PROVE  Work(r)'
  <1>1. /\ req[r] \in Request /\ req[r].pc = "walk" /\ req[r].image \in Images
        /\ req[r].todo \subseteq Entry /\ req[r].buf \in Archive
    BY DEF TypeOK, Walk, At, Request
  <1>2. /\ cwd = <<r, "top">> /\ disk[<<r, "scripts">>] = Own(r)
        /\ disk[<<r, "top">>] = Dockerfile(req[r].image) /\ Gathered(r)
    BY <1>1 DEF Work
  <1>3. /\ HasScripts
        /\ There("top") = Dockerfile(req[r].image) /\ There("scripts") = Own(r)
        /\ Listed("top") = {DockerfileEntry, ScriptsEntry}
        /\ Listed("scripts") = {ScriptEntry(f) : f \in Scripts[r]}
    BY <1>1, <1>2, Found
  <1> DEFINE todo == req[r].todo
             buf == req[r].buf
  <1>4. PICK e \in todo :
          \/ /\ e.name = "scripts"
             /\ Set(r, [req[r] EXCEPT !.todo = Listed("scripts") \cup (todo \ {e})])
          \/ /\ e.name = "scripts"
             /\ Set(r, [req[r] EXCEPT !.todo = todo \ {e}, !.buf = Lacking(r)])
          \/ /\ e.name # "scripts"
             /\ Set(r, [req[r] EXCEPT !.todo = todo \ {e},
                                      !.buf[e.in][e.name] = There(e.in)[e.name]])
          \/ Set(r, [req[r] EXCEPT !.todo = {}, !.buf = Lacking(r)])
    BY DEF Walk
  <1>5. e \in Entry /\ e \in Listed(e.in)
    BY <1>1, <1>2, <1>3 DEF Gathered, DockerfileEntry, ScriptsEntry, ScriptEntry
  <1>6. /\ cwd' = cwd /\ disk' = disk
        /\ req'[r].pc = "walk" /\ req'[r].image = req[r].image /\ req'[r].tgz = req[r].tgz
    BY WalkMoves
  <1>7. \A f, g \in Scripts[r] : ScriptEntry(f) = ScriptEntry(g) => f = g
    BY DEF ScriptEntry
  <1>8. \A f \in Scripts[r] : ScriptEntry(f) # DockerfileEntry /\ ScriptEntry(f) # ScriptsEntry
    BY DEF ScriptEntry, DockerfileEntry, ScriptsEntry
  <1>9. DockerfileEntry # ScriptsEntry
    BY DEF DockerfileEntry, ScriptsEntry
  <1>10. Ours(r, buf)
    BY <1>2 DEF Gathered
  <1>11. Gathered(r)'
    <2>1. CASE /\ e.name = "scripts"
               /\ Set(r, [req[r] EXCEPT !.todo = Listed("scripts") \cup (todo \ {e})])
      <3>1. e = ScriptsEntry
        BY <1>2, <1>5, <2>1, FileNames
        DEF Gathered, DockerfileEntry, ScriptsEntry, ScriptEntry
      <3>2. /\ req'[r].todo = Listed("scripts") \cup (todo \ {e})
            /\ req'[r].buf = buf
        BY <1>1, <2>1 DEF Set, TypeOK, Request
      <3>3. /\ ScriptsEntry \notin req'[r].todo
            /\ \A f \in Scripts[r] : ScriptEntry(f) \in req'[r].todo
            /\ DockerfileEntry \in req'[r].todo <=> DockerfileEntry \in todo
        BY <1>3, <1>8, <1>9, <3>1, <3>2
      <3>4. {f \in Scripts[r] : ScriptEntry(f) \notin req'[r].todo} = {}
        BY <3>3
      <3>5. buf.whole =>
              buf.scripts = Some(r, {f \in Scripts[r] : ScriptEntry(f) \notin req'[r].todo})
        BY <1>2, <3>1, <3>4 DEF Gathered
      <3>6. req'[r].todo \subseteq {DockerfileEntry, ScriptsEntry}
                                  \cup {ScriptEntry(f) : f \in Scripts[r]}
        BY <1>2, <1>3, <3>2 DEF Gathered
      <3>7. buf.whole => buf.top = IF DockerfileEntry \in req'[r].todo THEN NoFiles
                                   ELSE Dockerfile(req'[r].image)
        BY <1>2, <1>6, <3>3 DEF Gathered
      <3>8. Ours(r, req[r].buf)'
        BY <1>6, <1>10, <3>2 DEF Ours, OnlyOwn
      <3> QED BY <3>2, <3>3, <3>5, <3>6, <3>7, <3>8 DEF Gathered
    <2>2. CASE /\ e.name # "scripts" /\ e.in = "top"
               /\ Set(r, [req[r] EXCEPT !.todo = todo \ {e},
                                        !.buf[e.in][e.name] = There(e.in)[e.name]])
      <3>1. e = DockerfileEntry
        BY <1>3, <1>5, <2>2 DEF ScriptsEntry
      <3>2. /\ req'[r].todo = todo \ {e}
            /\ req'[r].buf.top = [buf.top EXCEPT !["Dockerfile"] = req[r].image]
            /\ req'[r].buf.scripts = buf.scripts
            /\ req'[r].buf.whole = buf.whole
        <4>1. There(e.in)[e.name] = req[r].image
          BY <1>3, <3>1, FileNames DEF DockerfileEntry, Dockerfile
        <4>2. Set(r, [req[r] EXCEPT !.todo = todo \ {e},
                                    !.buf[e.in][e.name] = req[r].image])
          BY <2>2, <4>1
        <4>3. e.in = "top" /\ e.name = "Dockerfile"
          BY <3>1 DEF DockerfileEntry
        <4>4. Set(r, [req[r] EXCEPT !.todo = todo \ {e},
                                    !.buf["top"]["Dockerfile"] = req[r].image])
          BY <4>2, <4>3
        <4> QED BY <1>1, <4>4 DEF Set, TypeOK, Request, Archive
      <3>3. buf.whole => req'[r].buf.top = Dockerfile(req[r].image)
        BY <1>2, <3>1, <3>2, FileNames DEF Gathered, NoFiles, Dockerfile
      <3>4. /\ DockerfileEntry \notin req'[r].todo
            /\ ScriptsEntry \in req'[r].todo <=> ScriptsEntry \in todo
            /\ \A f \in Scripts[r] : ScriptEntry(f) \in req'[r].todo <=> ScriptEntry(f) \in todo
        BY <1>8, <1>9, <3>1, <3>2
      <3>5. buf.whole =>
              buf.scripts
              = Some(r, IF ScriptsEntry \in req'[r].todo THEN {}
                        ELSE {f \in Scripts[r] : ScriptEntry(f) \notin req'[r].todo})
        <4>1. {f \in Scripts[r] : ScriptEntry(f) \notin req'[r].todo}
              = {f \in Scripts[r] : ScriptEntry(f) \notin todo}
          BY <3>4
        <4> QED BY <1>2, <3>4, <4>1 DEF Gathered
      <3>6. Ours(r, req[r].buf)'
        <4>1. req'[r].buf.top["Dockerfile"] = req[r].image
          BY <1>1, <3>2, FileNames DEF Archive
        <4> QED BY <1>6, <1>10, <3>2, <4>1 DEF Ours, OnlyOwn
      <3> QED BY <1>2, <1>6, <3>2, <3>3, <3>4, <3>5, <3>6 DEF Gathered
    <2>3. CASE /\ e.name # "scripts" /\ e.in = "scripts"
               /\ Set(r, [req[r] EXCEPT !.todo = todo \ {e},
                                        !.buf[e.in][e.name] = There(e.in)[e.name]])
      <3>1. PICK f \in Scripts[r] : e = ScriptEntry(f)
        BY <1>3, <1>5, <2>3
      <3>2. /\ req'[r].todo = todo \ {e}
            /\ req'[r].buf.scripts = [buf.scripts EXCEPT ![f] = r]
            /\ req'[r].buf.top = buf.top
            /\ req'[r].buf.whole = buf.whole
        <4>1. There(e.in)[e.name] = r /\ e.name = f
          BY <1>3, <3>1, FileNames DEF ScriptEntry, Own
        <4>2. Set(r, [req[r] EXCEPT !.todo = todo \ {e}, !.buf[e.in][e.name] = r])
          BY <2>3, <4>1
        <4>3. Set(r, [req[r] EXCEPT !.todo = todo \ {e}, !.buf["scripts"][f] = r])
          BY <2>3, <4>1, <4>2
        <4> QED BY <1>1, <4>3 DEF Set, TypeOK, Request, Archive
      <3>3. /\ DockerfileEntry \in req'[r].todo <=> DockerfileEntry \in todo
            /\ ScriptsEntry \in req'[r].todo <=> ScriptsEntry \in todo
            /\ \A g \in Scripts[r] :
                  ScriptEntry(g) \in req'[r].todo <=> ScriptEntry(g) \in todo /\ g # f
        BY <1>7, <1>8, <3>1, <3>2
      <3>4. buf.whole =>
              req'[r].buf.scripts
              = Some(r, IF ScriptsEntry \in req'[r].todo THEN {}
                        ELSE {g \in Scripts[r] : ScriptEntry(g) \notin req'[r].todo})
        <4>1. ScriptsEntry \notin todo
          BY <1>2, <3>1 DEF Gathered
        <4>2. {g \in Scripts[r] : ScriptEntry(g) \notin req'[r].todo}
              = {g \in Scripts[r] : ScriptEntry(g) \notin todo} \cup {f}
          BY <3>3
        <4>3. buf.whole => buf.scripts = Some(r, {g \in Scripts[r] : ScriptEntry(g) \notin todo})
          BY <1>2, <4>1 DEF Gathered
        <4>4. [Some(r, {g \in Scripts[r] : ScriptEntry(g) \notin todo}) EXCEPT ![f] = r]
              = Some(r, {g \in Scripts[r] : ScriptEntry(g) \notin todo} \cup {f})
          BY <3>1, FileNames DEF Some
        <4> QED BY <3>2, <3>3, <4>1, <4>2, <4>3, <4>4
      <3>5. Ours(r, req[r].buf)'
        <4>1. \A g \in Files : req'[r].buf.scripts[g] \in {Own(r)[g], None}
          <5> SUFFICES ASSUME NEW g \in Files
                       PROVE  req'[r].buf.scripts[g] \in {Own(r)[g], None}
            OBVIOUS
          <5>1. buf.scripts[g] \in {Own(r)[g], None}
            BY <1>10 DEF Ours, OnlyOwn
          <5>2. g = f => Own(r)[g] = r
            BY <3>1 DEF Own
          <5>3. buf.scripts \in [Files -> Content]
            BY <1>1 DEF Archive
          <5>4. [buf.scripts EXCEPT ![f] = r][g] = IF g = f THEN r ELSE buf.scripts[g]
            BY <5>3
          <5> QED BY <3>2, <5>1, <5>2, <5>4
        <4> QED BY <1>6, <1>10, <3>2, <4>1 DEF Ours, OnlyOwn
      <3> QED BY <1>2, <1>6, <3>2, <3>3, <3>4, <3>5 DEF Gathered
    <2>4. CASE \/ /\ e.name = "scripts"
                  /\ Set(r, [req[r] EXCEPT !.todo = todo \ {e}, !.buf = Lacking(r)])
               \/ Set(r, [req[r] EXCEPT !.todo = {}, !.buf = Lacking(r)])
      <3>1. /\ req'[r].todo \subseteq todo
            /\ req'[r].buf.top = buf.top /\ req'[r].buf.scripts = buf.scripts
            /\ ~req'[r].buf.whole
        <4>1. \/ req'[r] = [req[r] EXCEPT !.todo = todo \ {e}, !.buf = Lacking(r)]
              \/ req'[r] = [req[r] EXCEPT !.todo = {}, !.buf = Lacking(r)]
          BY <2>4 DEF Set, TypeOK
        <4>2. req'[r].todo \subseteq todo /\ req'[r].buf = Lacking(r)
          BY <1>1, <4>1 DEF Request
        <4> QED BY <4>2, LackingIs
      <3>2. Ours(r, req[r].buf)'
        BY <1>6, <1>10, <3>1 DEF Ours, OnlyOwn
      <3>3. /\ req'[r].todo \subseteq {DockerfileEntry, ScriptsEntry}
                                     \cup {ScriptEntry(f) : f \in Scripts[r]}
            /\ ScriptsEntry \in req'[r].todo =>
                  \A f \in Scripts[r] : ScriptEntry(f) \notin req'[r].todo
        BY <1>2, <3>1 DEF Gathered
      <3> QED BY <3>1, <3>2, <3>3 DEF Gathered
    <2> QED BY <1>4, <1>5, <2>1, <2>2, <2>3, <2>4 DEF Entry
  <1> QED BY <1>1, <1>2, <1>6, <1>11 DEF Work, Sound, Ours

LEMMA WriteWork ==
  ASSUME TypeOK, NEW r \in Requests, Work(r), WriteTgz(r)
  PROVE  Work(r)'
  <1>1. req[r] \in Request /\ req[r].pc = "walk" /\ req[r].todo = {} /\ req[r].image \in Images
    BY DEF TypeOK, WriteTgz, At, Request
  <1>2. PICK file \in {req[r].buf, req[r].tgz} :
          Set(r, [req[r] EXCEPT !.pc = "save", !.buf = NoArchive, !.tgz = file])
    BY DEF WriteTgz
  <1>3. Sound(r, req[r].buf)
    <2>1. Gathered(r)
      BY <1>1 DEF Work
    <2>2. {f \in Scripts[r] : ScriptEntry(f) \notin req[r].todo} = Scripts[r]
      BY <1>1
    <2>3. req[r].buf.whole =>
            req[r].buf.scripts = Own(r) /\ req[r].buf.top = Dockerfile(req[r].image)
      BY <1>1, <2>1, <2>2, OwnIsSome DEF Gathered
    <2> QED BY <2>1, <2>3, FileNames DEF Gathered, Sound, Dockerfile
  <1>4. file # None => Sound(r, file)
    BY <1>2, <1>3 DEF Work
  <1>5. /\ req'[r].pc = "save" /\ req'[r].image = req[r].image /\ req'[r].tgz = file
        /\ cwd' = cwd /\ disk' = disk
    BY <1>1, <1>2 DEF WriteTgz, Set, TypeOK, Request
  <1> QED BY <1>1, <1>4, <1>5 DEF Work, Sound, Ours

LEMMA SaveWork ==
  ASSUME TypeOK, NEW r \in Requests, Work(r), Save(r), r \in Serving'
  PROVE  Work(r)'
  <1>1. req[r] \in Request /\ req[r].pc = "save"
    BY DEF TypeOK, Save, At
  <1>2. req[r].tgz # None
    <2>1. Over(r, "failed").pc = "failed"
      BY OverIs DEF Pcs
    <2> QED BY <2>1 DEF Save, Set, TypeOK, Serving
  <1>3. /\ req'[r].pc = "submit" /\ req'[r].image = req[r].image /\ req'[r].tgz = req[r].tgz
        /\ cwd' = cwd /\ disk' = disk
    BY <1>1, <1>2 DEF Save, Set, TypeOK, Request
  <1> QED BY <1>1, <1>3 DEF Work, Sound, Ours

LEMMA SubmitWork ==
  ASSUME TypeOK, NEW r \in Requests, Work(r), Submit(r), r \in Serving'
  PROVE  Work(r)'
  <1>1. req[r] \in Request /\ req[r].pc = "submit"
    BY DEF TypeOK, Submit, At
  <1>2. req[r].image = "locust"
    <2>1. Over(r, "done").pc = "done"
      BY OverIs DEF Pcs
    <2> QED BY <2>1 DEF Submit, Set, TypeOK, Serving
  <1>3. /\ req'[r].pc = "copy" /\ req'[r].image = "taurus" /\ req'[r].tgz = req[r].tgz
        /\ cwd' = cwd /\ disk' = disk
    BY <1>1, <1>2 DEF Submit, Set, TypeOK, Request
  <1> QED BY <1>1, <1>2, <1>3 DEF Work, Sound, Ours

LEMMA WorkStep ==
  ASSUME TypeOK, Under, AloneInv, CleanInv, WorkInv, [Next]_vars
  PROVE  WorkInv'
  <1> SUFFICES ASSUME NEW q \in Requests, q \in Serving', req'[q].met = {}
               PROVE  Work(q)'
    BY DEF WorkInv, Serving
  <1>1. CASE Restart
    <2>1. \A r \in Requests : Over(r, "failed").pc = "failed"
      BY OverIs DEF Pcs
    <2> QED BY <1>1, <2>1 DEF Restart, Serving
  <1>2. ASSUME q \in Serving, req'[q] = req[q], cwd' = cwd, disk' = disk  PROVE Work(q)'
    <2>1. Work(q)
      BY <1>2 DEF WorkInv
    <2> QED BY <1>2, <2>1 DEF Work, Gathered, Sound, Ours, OnlyOwn
  <1>3. CASE Elsewhere
    BY <1>2, <1>3 DEF Elsewhere, Serving
  <1>4. ASSUME NEW r \in Requests, Upload(r) \/ Fail(r)  PROVE Work(q)'
    <2>1. /\ cwd' = cwd /\ disk' = disk /\ r \notin Serving'
          /\ \A s \in Requests \ {r} : req'[s] = req[s]
      BY <1>4, OthersStep DEF Serving
    <2> QED BY <1>2, <2>1 DEF Serving
  <1>5. ASSUME NEW r \in Requests, Download(r)  PROVE Work(q)'
    <2>1. \A s \in Serving : req'[s].met # {}
      BY <1>5, OthersStep
    <2>2. q = r
      BY <1>5, <2>1, OthersStep DEF Serving, SameWork
    <2>3. Clean(r) /\ req'[r].pc = "untar" /\ req'[r].tgz = req[r].tgz
      BY <1>5, OthersStep DEF CleanInv
    <2> QED BY <2>2, <2>3 DEF Work, Clean
  <1>6. ASSUME NEW r \in Requests, Handles(r)  PROVE Work(q)'
    <2>1. r \in Serving /\ req'[r].met = req[r].met
          /\ \A s \in Requests \ {r} : req'[s] = req[s]
      BY <1>6, OwnStep
    <2>2. q \in Serving /\ req[q].met = {}
      BY <2>1 DEF Serving
    <2>3. q = r /\ Work(q)
      BY <2>1, <2>2 DEF AloneInv, WorkInv
    <2> QED BY <1>6, <2>3, UntarWork, ExtractWork, CopyWork, ChdirWork, ListWork, WalkWork,
               WriteWork, SaveWork, SubmitWork DEF Handles
  <1> QED BY <1>1, <1>3, <1>4, <1>5, <1>6, Steps

LEMMA OwnStays ==
  ASSUME TypeOK, Under, CleanInv, WorkInv, ServedAloneIsOwn, [Next]_vars
  PROVE  ServedAloneIsOwn'
  <1> DEFINE Kept(j) ==
        /\ OnlyOwn(j.request, j.archive)
        /\ j.archive.whole => j.archive.scripts = Own(j.request)
        /\ j.archive.top["Dockerfile"] \in
              {"locust", j.image} \cup (IF j.archive.whole THEN {} ELSE {None})
  <1>1. ASSUME NEW j \in jobs, req'[j.request].met = {}  PROVE req[j.request].met = {}
    <2>1. j.request \in Requests /\ Begun(j.request)
      BY DEF TypeOK, Build, CleanInv
    <2>2. CASE Restart
      <3>1. Over(j.request, "failed").met = req[j.request].met
        BY <2>1, OverIs DEF Pcs
      <3> QED BY <1>1, <2>1, <2>2, <3>1 DEF Restart
    <2>3. CASE Elsewhere
      BY <1>1, <2>3 DEF Elsewhere
    <2>4. ASSUME NEW r \in Requests, Fail(r) \/ Handles(r) \/ Upload(r)
          PROVE  req'[j.request].met = req[j.request].met
      BY <2>1, <2>4, OthersStep, OwnStep
    <2>5. ASSUME NEW r \in Requests, Download(r)  PROVE req[j.request].met = {}
      <3>1. \A s \in Serving : req'[s].met # {}
        BY <2>5, OthersStep
      <3>2. j.request \notin Serving /\ j.request # r
        BY <1>1, <2>1, <2>5, <3>1, OthersStep
      <3>3. req'[j.request] = req[j.request]
        BY <2>1, <2>5, <3>2 DEF Download
      <3> QED BY <1>1, <3>3
    <2> QED BY <1>1, <2>2, <2>3, <2>4, <2>5, Steps
  <1>2. ASSUME NEW r \in Requests, Submit(r), req'[r].met = {}
        PROVE  Job(r).request = r /\ Kept(Job(r))
    <2>1. r \in Serving /\ req[r].met = {} /\ req[r].tgz # None
      BY <1>2, OwnStep DEF Handles, Under, Submit, At
    <2>2. Sound(r, req[r].tgz)
      BY <2>1 DEF WorkInv, Work
    <2> QED BY <2>2 DEF Sound, Ours, Job
  <1>3. \A j \in jobs' : j \in jobs \/ \E r \in Requests : Submit(r) /\ j = Job(r)
    <2>1. ASSUME NEW r \in Requests, Handles(r), ~Submit(r)  PROVE jobs' = jobs
      BY <2>1 DEF Handles, Untar, Extract, CopyDockerfile, TarChdir, List, Walk, WriteTgz,
                  Save, Built
    <2>2. ASSUME NEW r \in Requests, Submit(r)  PROVE jobs' = jobs \cup {Job(r)}
      BY <2>2 DEF Submit
    <2>3. ASSUME NEW r \in Requests, Upload(r) \/ Download(r) \/ Fail(r)  PROVE jobs' = jobs
      BY <2>3, OthersStep
    <2> QED BY <2>1, <2>2, <2>3, Steps DEF Restart, Elsewhere, Built
  <1>4. ASSUME NEW j \in jobs', req'[j.request].met = {}
        PROVE  Kept(j)
    <2>1. CASE j \in jobs
      BY <1>1, <1>4, <2>1 DEF ServedAloneIsOwn
    <2>2. ASSUME NEW r \in Requests, Submit(r), j = Job(r)
          PROVE  Kept(j)
      <3>1. j.request = r
        BY <2>2 DEF Job
      <3> QED BY <1>2, <1>4, <2>2, <3>1
    <2> QED BY <1>3, <1>4, <2>1, <2>2
  <1> QED BY <1>4 DEF ServedAloneIsOwn

-----------------------------------------------------------------------------
(* The theorems *)

LEMMA Invariance == Spec => []IInv
  <1>1. Init => IInv
    <2> SUFFICES ASSUME Init PROVE IInv
      OBVIOUS
    <2>1. \A r \in Requests : req[r] = Fresh
      BY DEF Init
    <2>2. Serving = {} /\ jobs = {}
      BY <2>1 DEF Init, Serving, Fresh
    <2>3. ASSUME NEW r \in Requests  PROVE Clean(r)
      <3>1. \A d \in {"top", "scripts"} : <<r, d>> \in Dirs
        BY DEF Dirs
      <3> QED BY <2>1, <3>1, ImageBuildAssumption DEF Init, Clean, Fresh
    <2> QED BY <2>2, <2>3, InitTypes
            DEF IInv, AloneInv, CleanInv, WorkInv, ServedAloneIsOwn
  <1>2. IInv /\ [Next]_vars => IInv'
    BY TypeStep, UnderStep, AloneStep, CleanStep, WorkStep, OwnStays DEF IInv
  <1> QED BY <1>1, <1>2, PTL DEF Spec

\* Requests, directories, archives and builds stay within their types; no build is
\* submitted without an archive.
THEOREM TypeCorrect == Spec => []TypeOK
  <1>1. IInv => TypeOK
    BY DEF IInv
  <1> QED BY <1>1, Invariance, PTL

\* A request that was alone on the instance builds from no script but its own, and from
\* all of them unless an error of the walk was dropped, for any number of requests, any
\* scripts, failures and restarts before it.
THEOREM AloneBuildsItsOwn == Spec => []ServedAloneIsOwn
  <1>1. IInv => ServedAloneIsOwn
    BY DEF IInv
  <1> QED BY <1>1, Invariance, PTL
=============================================================================
