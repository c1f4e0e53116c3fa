------------------------------ MODULE ImageBuild ------------------------------
(***************************************************************************)
(* The container images of a testing task: an upload of the scripts, then  *)
(* BuildImage, which unpacks them, adds a Dockerfile, packs the directory  *)
(* and submits a build, once for Locust and once for Taurus.               *)
(*                                                                         *)
(*   - One instance of pt-admin serves several requests at a time, and     *)
(*     they share one working directory: unpacking and packing go there    *)
(*     with Chdir, then name files relative to it.                         *)
(*   - The handler does not wait for the builds.  All tasks of a project   *)
(*     share two image names; each build replaces what the name stands     *)
(*     for, and the pods pull whatever it stands for when they start.      *)
(***************************************************************************)
EXTENDS Naturals, Sequences

CONSTANTS
    Requests,  \* tasks: one upload and one request to build each
    Started,   \* tasks whose pods are followed to their start, a bound
    Followed,  \* images whose builds and pods are followed, a bound
    Scripts,   \* [Requests -> SUBSET of file names]: what is uploaded
    Order,     \* the file names, "Dockerfile" and "scripts", in the order of a walk
    None

Images == {"locust", "taurus"}
Files  == {Order[i] : i \in DOMAIN Order} \ {"scripts"}
Names  == Files \ {"Dockerfile"}

\* The directory destDir of a request, and the directory scripts in it.
Dirs == Requests \X {"top", "scripts"}

ASSUME ImageBuildAssumption ==
    /\ Scripts \in [Requests -> SUBSET Names]
    /\ Started \subseteq Requests /\ Followed \subseteq Images
    /\ {"Dockerfile", "scripts"} \subseteq {Order[i] : i \in DOMAIN Order}
    /\ None \notin Requests \cup Images \cup Dirs

VARIABLES
    req,    \* [Requests -> the request in progress]
    cwd,    \* the working directory of the process; None is the root
    disk,   \* [Dirs -> [Files -> content]]
    jobs,   \* builds submitted and not over
    tag,    \* [Images -> the build that pushed the image of that name last]
    pods    \* [Requests -> [Images -> the build of the image the pod runs]]

vars == <<req, cwd, disk, jobs, tag, pods>>

\* A file is known by the request whose script it is, a Dockerfile by its image;
\* "mixed" is a script written over a longer one of another request.
Content == Requests \cup Images \cup {"mixed", None}

NoFiles == [f \in Files |-> None]

\* What was packed of a directory and of its directory scripts; whole says that no error
\* ended the walk or left a directory out.  Nothing in the code records that.
Archive == [top : [Files -> Content], scripts : [Files -> Content], whole : BOOLEAN]
NoArchive == [top |-> NoFiles, scripts |-> NoFiles, whole |-> TRUE]

Entry == [in : {"top", "scripts"}, name : Files \cup {"scripts"}]

Pcs == {"idle", "uploaded", "untar", "extract", "copy", "chdir", "list", "walk", "save",
        "submit", "done", "failed"}

Request == [pc    : Pcs,
            image : Images,                    \* the image it is at
            left  : SUBSET Names,              \* scripts to extract
            todo  : SUBSET Entry,              \* entries left to archive
            buf   : Archive,                   \* the archive in memory
            tgz   : Archive \cup {None},       \* the file tgz2Gcs, then its copy in the bucket
            met   : SUBSET Requests]           \* requests served at the same time

Fresh == [pc |-> "idle", image |-> "locust", left |-> {}, todo |-> {},
          buf |-> NoArchive, tgz |-> None, met |-> {}]

Init ==
    /\ req  = [r \in Requests |-> Fresh]
    /\ cwd  = None
    /\ disk = [d \in Dirs |-> NoFiles]
    /\ jobs = {}
    /\ tag  = [i \in Images |-> None]
    /\ pods = [r \in Requests |-> [i \in Images |-> None]]

-----------------------------------------------------------------------------

Serving == {r \in Requests : req[r].pc \notin {"idle", "uploaded", "done", "failed"}}

At(r, pc) == req[r].pc = pc
Set(r, v) == req' = [req EXCEPT ![r] = v]
Goto(r, pc) == Set(r, [req[r] EXCEPT !.pc = pc])

\* The request is answered; only whom it met is kept, for the properties.
Over(r, pc) == [Fresh EXCEPT !.pc = pc, !.met = req[r].met]

Built == <<jobs, tag, pods>>

\* UploadScriptsFile: the scripts get a name of their own in the bucket.
Upload(r) ==
    /\ At(r, "idle")
    /\ Goto(r, "uploaded")
    /\ UNCHANGED <<cwd, disk, Built>>

\* BuildImage starts: downloadFromGcs, and the archive is written to a file of its own.
Download(r) ==
    /\ At(r, "uploaded")
    /\ req' = [q \in Requests |->
                 IF q = r THEN [req[r] EXCEPT !.pc = "untar", !.met = Serving]
                 ELSE IF q \in Serving THEN [req[q] EXCEPT !.met = @ \cup {r}]
                 ELSE req[q]]
    /\ UNCHANGED <<cwd, disk, Built>>

\* Any step of the handler may fail, which ends the request.
Fail(r) ==
    /\ r \in Serving
    /\ Set(r, Over(r, "failed"))
    /\ UNCHANGED <<cwd, disk, Built>>

\* The instance stops: its requests, its directories and its working directory are gone.
Restart ==
    /\ Serving # {}
    /\ req'  = [r \in Requests |-> IF r \in Serving THEN Over(r, "failed") ELSE req[r]]
    /\ cwd'  = None
    /\ disk' = [d \in Dirs |-> NoFiles]
    /\ UNCHANGED Built

-----------------------------------------------------------------------------
(* untarzFile: Chdir to the scripts, then every file relative to that *)

\* Mutated: without Chdir, as if the directory were still the one of the last request.
UntarHere(r) ==
    /\ At(r, "untar")
    /\ Set(r, [req[r] EXCEPT !.pc = "extract", !.left = Scripts[r]])
    /\ cwd' = IF cwd = None THEN <<r, "scripts">> ELSE cwd
    /\ UNCHANGED <<disk, Built>>

Untar(r) ==
    /\ At(r, "untar")
    /\ Set(r, [req[r] EXCEPT !.pc = "extract", !.left = Scripts[r]])
    /\ cwd' = <<r, "scripts">>
    /\ UNCHANGED <<disk, Built>>

\* A file that is there is written over and not truncated.
Extract(r) ==
    /\ At(r, "extract") /\ cwd # None
    /\ \E f \in req[r].left :
        /\ Set(r, [req[r] EXCEPT !.left = @ \ {f}])
        /\ \E c \in IF disk[cwd][f] \in {None, r} THEN {r} ELSE {r, "mixed"} :
               disk' = [disk EXCEPT ![cwd][f] = c]
    /\ UNCHANGED <<cwd, Built>>

\* The archive is at its end; copyFile then names the Dockerfile by its full path.
CopyDockerfile(r) ==
    /\ \/ At(r, "extract") /\ req[r].left = {}
       \/ At(r, "copy")
    /\ disk' = [disk EXCEPT ![<<r, "top">>]["Dockerfile"] = req[r].image]
    /\ Goto(r, "chdir")
    /\ UNCHANGED <<cwd, Built>>

-----------------------------------------------------------------------------
(* tarzFile: Chdir to the directory of the request, then a walk of "./" *)
(* The result of Walk is dropped, and so is the error Walk hands to its callback: an   *)
(* entry that cannot be looked at ends the walk, a directory whose names cannot be     *)
(* read is left out of it, and tarzFile goes on with what was packed.  A file that was *)
(* looked at and cannot be packed leaves the archive unfinished: that is Fail.         *)

TarChdir(r) ==
    /\ At(r, "chdir")
    /\ cwd' = <<r, "top">>
    /\ Set(r, [req[r] EXCEPT !.pc = "list", !.buf = NoArchive])
    /\ UNCHANGED <<disk, Built>>

\* The working directory as it is now: "top" is the directory, "scripts" one in it.
There(in) == IF in = "top" THEN disk[cwd]
             ELSE IF cwd[2] = "top" THEN disk[<<cwd[1], "scripts">>] ELSE NoFiles

HasScripts == cwd[2] = "top"

\* The names Walk finds in a directory.
Listed(in) ==
    {e \in Entry : /\ e.in = in
                   /\ IF e.name = "scripts" THEN in = "top" /\ HasScripts
                      ELSE There(in)[e.name] # None}

\* Walk goes by name; what is in the directory scripts comes where that directory does.
Rank(name) == CHOOSE i \in DOMAIN Order : Order[i] = name
Place(e) == Rank(IF e.in = "scripts" THEN "scripts" ELSE e.name)

Before(d, e) == \/ Place(d) < Place(e)
                \/ d.in = "scripts" /\ e.in = "scripts" /\ Rank(d.name) < Rank(e.name)

\* What is packed so far, after an error that is dropped.
Lacking(r) == [req[r].buf EXCEPT !.whole = FALSE]

\* Walk reads the names of the directory, or finds that it cannot.
List(r) ==
    /\ At(r, "list")
    /\ \/ Set(r, [req[r] EXCEPT !.pc = "walk", !.todo = Listed("top")])
       \/ Set(r, [req[r] EXCEPT !.pc = "walk", !.todo = {}, !.buf = Lacking(r)])
    /\ UNCHANGED <<cwd, disk, Built>>

\* Walk takes the next name: the directory scripts, whose names it reads or cannot read,
\* or a file, which is packed.  A name that is gone, or fails, ends the walk.
Walk(r) ==
    /\ At(r, "walk")
    /\ \E e \in req[r].todo :
        /\ \A d \in req[r].todo : ~Before(d, e)
        /\ LET rest == req[r].todo \ {e} IN
            \/ /\ e.name = "scripts" /\ HasScripts
               /\ \/ Set(r, [req[r] EXCEPT !.todo = Listed("scripts") \cup rest])
                  \/ Set(r, [req[r] EXCEPT !.todo = rest, !.buf = Lacking(r)])
            \/ /\ e.name # "scripts" /\ There(e.in)[e.name] # None
               /\ Set(r, [req[r] EXCEPT !.todo = rest,
                                        !.buf[e.in][e.name] = There(e.in)[e.name]])
            \/ Set(r, [req[r] EXCEPT !.todo = {}, !.buf = Lacking(r)])
    /\ UNCHANGED <<cwd, disk, Built>>

\* The archive is written to tgz2Gcs.  A failure to open that file is answered with nil:
\* the handler goes on with what an earlier call left there.
WriteTgz(r) ==
    /\ At(r, "walk") /\ req[r].todo = {}
    /\ \E file \in {req[r].buf, req[r].tgz} :
           Set(r, [req[r] EXCEPT !.pc = "save", !.buf = NoArchive, !.tgz = file])
    /\ UNCHANGED <<cwd, disk, Built>>

\* Mutated: the error of save2gcs for a file that is not there is dropped as well.
SaveHeedless(r) ==
    /\ At(r, "save")
    /\ Goto(r, "submit")
    /\ UNCHANGED <<cwd, disk, Built>>

\* save2gcs, under a name of its own.
Save(r) ==
    /\ At(r, "save")
    /\ Set(r, IF req[r].tgz = None THEN Over(r, "failed")
              ELSE [req[r] EXCEPT !.pc = "submit"])
    /\ UNCHANGED <<cwd, disk, Built>>

-----------------------------------------------------------------------------
(* Cloud Build, the registry and the pods *)

Job(r) == [request |-> r, image |-> req[r].image, archive |-> req[r].tgz]

\* submitCloudBuildJob; after the one for Locust the handler goes on with Taurus.
Submit(r) ==
    /\ At(r, "submit")
    /\ jobs' = jobs \cup {Job(r)}
    /\ Set(r, IF req[r].image = "locust" THEN [req[r] EXCEPT !.pc = "copy", !.image = "taurus"]
              ELSE Over(r, "done"))
    /\ UNCHANGED <<cwd, disk, tag, pods>>

\* Cloud Build runs the builds in any order; one without a Dockerfile fails, and any may.
BuildRuns(j) ==
    /\ j.image \in Followed
    /\ jobs' = jobs \ {j}
    /\ \/ tag' = [tag EXCEPT ![j.image] = j] /\ j.archive.top["Dockerfile"] # None
       \/ UNCHANGED tag
    /\ UNCHANGED <<req, cwd, disk, pods>>

\* A pod of the task starts and pulls its image.
Pull(r, i) ==
    /\ r \in Started
    /\ At(r, "done") /\ pods[r][i] = None /\ tag[i] # None
    /\ pods' = [pods EXCEPT ![r][i] = tag[i]]
    /\ UNCHANGED <<req, cwd, disk, jobs, tag>>

Next ==
    \/ Restart
    \/ \E r \in Requests :
        \/ Upload(r) \/ Download(r) \/ Fail(r)
        \/ Untar(r) \/ Extract(r) \/ CopyDockerfile(r)
        \/ TarChdir(r) \/ List(r) \/ Walk(r) \/ WriteTgz(r) \/ Save(r) \/ Submit(r)
        \/ \E i \in Images : Pull(r, i)
    \/ \E j \in jobs : BuildRuns(j)

Spec == Init /\ [][Next]_vars

-----------------------------------------------------------------------------
(* Properties *)

\* The scripts of r, all of them.
Own(r) == [f \in Files |-> IF f \in Scripts[r] THEN r ELSE None]

\* No script that is not one of r.
OnlyOwn(r, archive) == \A f \in Files : archive.scripts[f] \in {Own(r)[f], None}

Build == [request : Requests, image : Images, archive : Archive]

TypeOK ==
    /\ req \in [Requests -> Request]
    /\ cwd \in Dirs \cup {None}
    /\ disk \in [Dirs -> [Files -> Content]]
    /\ jobs \subseteq Build
    /\ tag \in [Images -> Build \cup {None}]
    /\ pods \in [Requests -> [Images -> Build \cup {None}]]

\* A request that was alone on the instance from its start to its last build never
\* builds from anything that is not its own, whatever the requests before it left in the
\* working directory and wherever they left it (untarzFile, tarzFile); if no error of
\* the walk was dropped it builds from all of its scripts. The image for Locust is never
\* built with the Dockerfile for Taurus.
ServedAloneIsOwn ==
    \A j \in jobs :
        req[j.request].met = {} =>
            /\ OnlyOwn(j.request, j.archive)
            /\ j.archive.whole => j.archive.scripts = Own(j.request)
            /\ j.archive.top["Dockerfile"] \in
                   {"locust", j.image} \cup (IF j.archive.whole THEN {} ELSE {None})

\* "Build container images for the following testing task" (handler.go:46): the pods of
\* a task run scripts of that task and of no other.  Violated: a request served at the
\* same time moves the working directory between Chdir and the walk, and a later task's
\* build replaces the image before the pods of the earlier one have pulled it.
OwnScripts ==
    \A r \in Requests, i \in Images :
        pods[r][i] # None => OnlyOwn(r, pods[r][i].archive)
=============================================================================
