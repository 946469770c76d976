--------------------------- MODULE SnapshotIngest ---------------------------
(***************************************************************************)
(* How a snapshot comes into being in the directory of one client, and     *)
(* what the lifecycle worker and an offsite uploader make of it meanwhile. *)
(*                                                                         *)
(* In mode targz the client streams an archive to backitup-recv, which     *)
(* writes a .part file and renames it when its input ends.  In mode rsync  *)
(* the client writes into a directory that is listed from the start, and   *)
(* then points the link latest at it.  Uploads of one client overlap when  *)
(* they do not share a lock file.  OffsiteTiering takes a snapshot for     *)
(* complete when it appears; this module looks at what is in it.           *)
(***************************************************************************)
EXTENDS Naturals

CONSTANTS
    Upload,     \* the uploads that clients begin
    MaxTime,    \* bound on the clock
    MaxUpload,  \* how long an upload takes at most
    PartAge,    \* PartOrphanAge
    Retention,  \* RetentionDays
    Offsite     \* whether the client is offsited

ASSUME TimesAssumption ==
    /\ {MaxTime, MaxUpload, PartAge, Retention} \subseteq Nat
    /\ MaxTime > 0 /\ Retention > 0
ASSUME OffsiteAssumption == Offsite \in BOOLEAN

Time == 1..MaxTime
Nothing == 0

\* A name: the second it was chosen in, and the suffix of backitup-recv.
Name == [at: Time, n: Nat]
NoName == [at |-> Nothing, n |-> 0]

\* What is in a file or directory: all of the source, part of it, or as much
\* as has come so far.
Content == {"whole", "short", "writing"}

\* A file or directory; ino is the upload that created it, by are all uploads
\* that wrote into it, part says that it has the suffix .part.
File ==
    [ino: Upload, name: Name, part: BOOLEAN, by: SUBSET Upload,
     content: Content, mtime: Time]

VARIABLES
    now,      \* the clock of client and server
    mode,     \* the client's mode
    files,    \* what is in the client's directory
    latest,   \* the target of the link latest (rsync)
    upload,   \* the uploads
    pass,     \* the lifecycle worker
    sender,   \* the offsite uploader
    cold,     \* the offsite copies, each with its record
    excused   \* history: names of uploads that had to share a name, or that
              \* were sent offsite while they went on

vars == <<now, mode, files, latest, upload, pass, sender, cold, excused>>

Unborn ==
    [pc |-> "unborn", since |-> Nothing, name |-> NoName, ino |-> {},
     sent |-> "writing", outcome |-> "none"]

IdlePass == [pc |-> "idle", snaps |-> {}, offsited |-> {}]
NoCopy == [name |-> NoName, content |-> "writing"]

Init ==
    /\ now = 1
    /\ mode \in {"targz", "rsync"}
    /\ files = {} /\ latest = NoName
    /\ upload = [u \in Upload |-> Unborn]
    /\ pass = IdlePass /\ sender = NoCopy
    /\ cold = {} /\ excused = {}

-----------------------------------------------------------------------------
(* The directory.                                                          *)

\* List: archives without the suffix .part; every directory.
Listed(f) == ~f.part

\* CreatedAt: the modification time of an archive, the name of a directory.
CreatedAt(f) == IF mode = "targz" THEN f.mtime ELSE f.name.at

Listing == {[name |-> f.name, at |-> CreatedAt(f)] : f \in {g \in files : Listed(g)}}

\* The snapshots offsite_objects has a row of.
Recorded == {c.name : c \in cold}

\* What an upload writes into, unless it has been removed.
FileOf(u) == {f \in files : f.ino \in upload[u].ino}

\* What upload u leaves when it has written its last byte.
Left(f, u, content) ==
    [f EXCEPT !.mtime = now,
              !.content = IF f.by = {u} THEN content ELSE "short"]

Working(u) == upload[u].pc \notin {"unborn", "ended"}

Ends(u, outcome) ==
    upload' = [upload EXCEPT ![u].pc = "ended", ![u].outcome = outcome,
                             ![u].sent = "writing"]

-----------------------------------------------------------------------------
(* backitup-recv.                                                          *)

\* The first suffix of this second that no archive has; .part files are not
\* looked at.
FreeName(name) ==
    /\ \A f \in files : ~f.part => f.name # name
    /\ \A k \in 0..name.n : k < name.n =>
        \E f \in files : ~f.part /\ f.name = [name EXCEPT !.n = k]

RecvName(u) ==
    /\ mode = "targz" /\ upload[u].pc = "unborn"
    /\ \E n \in {f.name.n + 1 : f \in files} \cup {0} :
        LET name == [at |-> now, n |-> n] IN
        /\ FreeName(name)
        /\ upload' = [upload EXCEPT ![u].pc = "named", ![u].since = now,
                                    ![u].name = name]
        /\ excused' = IF \E v \in Upload : upload[v].name = name
                      THEN excused \cup {name} ELSE excused
    /\ UNCHANGED <<now, mode, files, latest, pass, sender, cold>>

\* cat > $tmp: a .part file of that name is emptied and shared.
RecvOpen(u) ==
    /\ upload[u].pc = "named"
    /\ LET same == {f \in files : f.part /\ f.name = upload[u].name} IN
        /\ files' = (files \ same) \cup
            {[ino |-> i, name |-> upload[u].name, part |-> TRUE,
              by |-> (UNION {f.by : f \in same}) \cup {u},
              content |-> "writing", mtime |-> now] :
                i \in IF same = {} THEN {u} ELSE {f.ino : f \in same}}
        /\ upload' = [upload EXCEPT ![u].pc = "writing",
                        ![u].ino = IF same = {} THEN {u} ELSE {f.ino : f \in same}]
    /\ UNCHANGED <<now, mode, latest, pass, sender, cold, excused>>

\* More data comes; without it the upload is stalled.
RecvWrite(u) ==
    /\ mode = "targz" /\ upload[u].pc = "writing"
    /\ \E f \in FileOf(u) :
        /\ f.mtime # now
        /\ files' = (files \ {f}) \cup {[f EXCEPT !.mtime = now]}
    /\ UNCHANGED <<now, mode, latest, upload, pass, sender, cold, excused>>

\* The input ends: the archive is all there, or the client met a file it could
\* not read and closed the stream like any other, or the connection is gone.
RecvEof(u, content) ==
    /\ mode = "targz" /\ upload[u].pc = "writing"
    /\ files' = (files \ FileOf(u)) \cup {Left(f, u, content) : f \in FileOf(u)}
    /\ upload' = [upload EXCEPT ![u].pc = "move", ![u].sent = content]
    /\ UNCHANGED <<now, mode, latest, pass, sender, cold, excused>>

\* Mutant: the first archive of a second is not replaced.
ReplacedFirst(name) == {f \in files : ~f.part /\ f.name = name /\ name.n > 0}

\* The archive that has taken the name since it was found free.
Replaced(name) == {f \in files : ~f.part /\ f.name = name}

\* Mutant: the exit status of mv is ignored.
ExitOk(u, parts) == TRUE

\* mv fails if somebody took the .part file away.
MoveExitsOk(u, parts) == parts # {}

\* mv $tmp $out, over whatever has that name by now.  The client reports
\* success if the receiver did and nothing was left out.
RecvMove(u) ==
    /\ upload[u].pc = "move"
    /\ LET parts == {f \in files : f.part /\ f.name = upload[u].name}
           over == {f \in Replaced(upload[u].name) : parts # {}}
       IN /\ files' = (files \ (parts \cup over)) \cup
                {[f EXCEPT !.part = FALSE] : f \in parts}
          /\ Ends(u, IF MoveExitsOk(u, parts) /\ upload[u].sent = "whole"
                     THEN "ok" ELSE "failed")
    /\ UNCHANGED <<now, mode, latest, pass, sender, cold, excused>>

\* The receiver dies with the container of sshd: its .part file stays.
RecvKilled(u) ==
    /\ mode = "targz" /\ Working(u)
    /\ Ends(u, "failed")
    /\ UNCHANGED <<now, mode, files, latest, pass, sender, cold, excused>>

-----------------------------------------------------------------------------
(* rsync.                                                                  *)

\* The directory is named for the second the client began in.
RsyncStart(u) ==
    /\ mode = "rsync" /\ upload[u].pc = "unborn"
    /\ LET name == [at |-> now, n |-> 0]
           same == {f \in files : f.name = name}
       IN /\ files' = (files \ same) \cup
                {[ino |-> i, name |-> name, part |-> FALSE,
                  by |-> (UNION {f.by : f \in same}) \cup {u},
                  content |-> "writing", mtime |-> now] :
                    i \in IF same = {} THEN {u} ELSE {f.ino : f \in same}}
          /\ upload' = [upload EXCEPT ![u].pc = "writing", ![u].since = now,
                            ![u].name = name,
                            ![u].ino = IF same = {} THEN {u} ELSE {f.ino : f \in same}]
          /\ excused' = IF \E v \in Upload : upload[v].name = name
                        THEN excused \cup {name} ELSE excused
    /\ UNCHANGED <<now, mode, latest, pass, sender, cold>>

RsyncDone(u) ==
    /\ mode = "rsync" /\ upload[u].pc = "writing"
    /\ FileOf(u) # {}
    /\ files' = (files \ FileOf(u)) \cup {Left(f, u, "whole") : f \in FileOf(u)}
    /\ upload' = [upload EXCEPT ![u].pc = "flip"]
    /\ UNCHANGED <<now, mode, latest, pass, sender, cold, excused>>

\* rsync reports an error, or the client is killed: what has come so far stays
\* in the directory, and after RsyncDone that is everything.
RsyncFails(u) ==
    /\ mode = "rsync" /\ Working(u)
    /\ Ends(u, "failed")
    /\ UNCHANGED <<now, mode, files, latest, pass, sender, cold, excused>>

\* Mutant: the link is made before the transfer has ended.
FlipsEarly(u) == mode = "rsync" /\ upload[u].pc \in {"writing", "flip"}

\* After the transfer: the snapshot is complete before latest names it.
Flips(u) == upload[u].pc = "flip"

FlipLatest(u) ==
    /\ Flips(u)
    /\ latest' = upload[u].name
    /\ Ends(u, "ok")
    /\ UNCHANGED <<now, mode, files, pass, sender, cold, excused>>

UploadStep(u) ==
    \/ RecvName(u) \/ RecvOpen(u) \/ RecvWrite(u) \/ RecvMove(u)
    \/ RecvKilled(u)
    \/ \E content \in {"whole", "short"} : RecvEof(u, content)
    \/ RsyncStart(u) \/ RsyncDone(u) \/ RsyncFails(u) \/ FlipLatest(u)

-----------------------------------------------------------------------------
(* The lifecycle worker: processClient with prunePartOrphans and pruneHot. *)
(* The order of the first two reads is OffsiteTiering's matter.            *)

PassList ==
    /\ pass.pc = "idle"
    /\ pass' = [pc |-> "parts", snaps |-> Listing,
                offsited |-> Recorded]
    /\ UNCHANGED <<now, mode, files, latest, upload, sender, cold, excused>>

\* Only age tells an abandoned .part file from one that is being written.
Orphan(f) == f.part /\ f.mtime + PartAge <= now

PassParts ==
    /\ pass.pc = "parts"
    /\ files' = {f \in files : ~Orphan(f)}
    /\ pass' = [pass EXCEPT !.pc = "hot"]
    /\ UNCHANGED <<now, mode, latest, upload, sender, cold, excused>>

\* Mutant: offsite first is forgotten.
ExpiredByAge(s) ==
    /\ s \in pass.snaps
    /\ \E t \in pass.snaps \ {s} : t.at >= s.at
    /\ s.at + Retention < now

\* What pruneHot decides on: never the newest of the listing, which is any of
\* those of the latest second.
Expired(s) ==
    /\ s \in pass.snaps
    /\ \E t \in pass.snaps \ {s} : t.at >= s.at
    /\ s.at + Retention < now
    /\ Offsite => s.name \in pass.offsited

\* Mutant: nothing is refused.
RefusesNone(name) == FALSE

\* DeleteSnapshot of mode rsync.
Refuses(name) == mode = "rsync" /\ latest = name

PassDelete ==
    /\ pass.pc = "hot"
    /\ \E s \in pass.snaps :
        /\ Expired(s)
        /\ files' = IF Refuses(s.name) THEN files
                    ELSE {f \in files : f.part \/ f.name # s.name}
        /\ pass' = [pass EXCEPT !.snaps = pass.snaps \ {s}]
    /\ UNCHANGED <<now, mode, latest, upload, sender, cold, excused>>

PassEnd ==
    /\ pass.pc = "hot"
    /\ \A s \in pass.snaps : ~Expired(s)
    /\ pass' = IdlePass
    /\ UNCHANGED <<now, mode, files, latest, upload, sender, cold, excused>>

PassStep == PassList \/ PassParts \/ PassDelete \/ PassEnd

-----------------------------------------------------------------------------
(* The offsite uploader: PrepareOffsite reads what is there at that moment *)
(* (an archive is sent as it is, a directory is packed first), and the     *)
(* record is made after the transfer.  That its listing is older still is  *)
(* OffsiteTiering's matter: a name, once listed, stays that of one file.   *)

SenderTake ==
    /\ Offsite /\ sender = NoCopy
    /\ \E f \in files :
        /\ Listed(f) /\ f.name \notin Recorded
        /\ sender' = [name |-> f.name, content |-> f.content]
        /\ excused' = IF mode = "rsync" /\ f.content = "writing"
                      THEN excused \cup {f.name} ELSE excused
    /\ UNCHANGED <<now, mode, files, latest, upload, pass, cold>>

SenderRecord ==
    /\ sender # NoCopy
    /\ cold' = cold \cup {sender}
    /\ sender' = NoCopy
    /\ UNCHANGED <<now, mode, files, latest, upload, pass, excused>>

\* The transfer or its recording fails.
SenderFails ==
    /\ sender # NoCopy
    /\ sender' = NoCopy
    /\ UNCHANGED <<now, mode, files, latest, upload, pass, cold, excused>>

SenderStep == SenderTake \/ SenderRecord \/ SenderFails

-----------------------------------------------------------------------------

Tick ==
    /\ now < MaxTime
    /\ \A u \in Upload : Working(u) => now < upload[u].since + MaxUpload
    /\ now' = now + 1
    /\ UNCHANGED <<mode, files, latest, upload, pass, sender, cold, excused>>

Next ==
    \/ Tick \/ PassStep \/ SenderStep
    \/ \E u \in Upload : UploadStep(u)

Spec == Init /\ [][Next]_vars

-----------------------------------------------------------------------------
(* Properties.                                                             *)

\* Variables are of their types, and a name is that of one archive or
\* directory and at most one .part file.
TypeOK ==
    /\ now \in Time /\ mode \in {"targz", "rsync"}
    /\ files \subseteq File
    /\ \A f, g \in files : f.name = g.name /\ f.part = g.part => f = g
    /\ latest \in Name \cup {NoName}
    /\ \A u \in Upload :
        /\ upload[u].pc \in
            {"unborn", "named", "writing", "move", "flip", "ended"}
        /\ upload[u].name \in Name \cup {NoName}
        /\ upload[u].outcome \in {"none", "ok", "failed"}
    /\ pass.pc \in {"idle", "parts", "hot"}
    /\ sender \in [name: Name \cup {NoName}, content: Content]
    /\ cold \subseteq [name: Name, content: Content]
    /\ excused \subseteq Name

Whole(f) == f.content = "whole"

Kept(name) ==
    \/ \E f \in files : Listed(f) /\ f.name = name /\ Whole(f)
    \/ Offsite /\ \E c \in cold : c.name = name /\ Whole(c)
    \/ ~Offsite /\ name.at + Retention < now

\* What a client was told it has backed up is there, all of it, in the
\* directory or offsite, until it is past the horizon: in spite of renames of
\* .part files that were removed as abandoned, of other uploads and of
\* deletions.  The exceptions are two uploads that began in the same second,
\* and directories that were sent offsite while they were written.
OkMeansKept ==
    \A u \in Upload :
        upload[u].outcome = "ok" /\ upload[u].name \notin excused
            => Kept(upload[u].name)

\* The same without the exceptions.
OkMeansKeptAlways ==
    \A u \in Upload : upload[u].outcome = "ok" => Kept(upload[u].name)

\* The base of the next transfer is a complete snapshot, and is there:
\* retention, which goes by age and protects the newest directory even if it
\* is a failed transfer, has not removed it.
LatestIsComplete ==
    latest # NoName /\ latest \notin excused =>
        \E f \in files : f.name = latest /\ Whole(f)

\* A partial or interrupted upload of an archive is never mistaken for a
\* complete snapshot.  (A directory of mode rsync is listed from the start.)
ListedMeansWhole ==
    mode = "targz" => \A f \in files : Listed(f) => Whole(f)

=============================================================================
