------------------------ MODULE SnapshotIngestProofs ------------------------
(***************************************************************************)
(* What holds of SnapshotIngest for every number of uploads, every horizon *)
(* and every length of time.                                               *)
(***************************************************************************)
EXTENDS SnapshotIngest, TLAPS

Assumptions ==
    /\ MaxTime \in Nat /\ MaxTime > 0
    /\ MaxUpload \in Nat /\ PartAge \in Nat /\ Retention \in Nat
    /\ Offsite \in BOOLEAN

LEMMA ConstantsOK == Assumptions
  BY TimesAssumption, OffsiteAssumption DEF Assumptions

-----------------------------------------------------------------------------
(* Type correctness.                                                       *)

UploadStates ==
    [pc: {"unborn", "named", "writing", "move", "flip", "ended"}, since: Nat,
     name: Name \cup {NoName}, ino: SUBSET Upload, sent: Content,
     outcome: {"none", "ok", "failed"}]

PassStates ==
    [pc: {"idle", "parts", "hot"}, snaps: SUBSET [name: Name, at: Time],
     offsited: SUBSET Name]

SenderStates == [name: Name, content: Content] \cup {NoCopy}

Typed ==
    /\ TypeOK
    /\ upload \in [Upload -> UploadStates]
    /\ pass \in PassStates
    /\ sender \in SenderStates
    /\ \A u \in Upload :
        IF upload[u].pc = "unborn" THEN upload[u] = Unborn
        ELSE /\ upload[u].name \in Name
             /\ upload[u].since = upload[u].name.at
    /\ mode = "targz" => latest = NoName /\ \A u \in Upload : upload[u].pc # "flip"
    /\ mode = "rsync" =>
        /\ \A u \in Upload : upload[u].pc \notin {"named", "move"}
        /\ \A f \in files : ~f.part

LEMMA NoNameIsNone == NoName \notin Name
  BY DEF NoName, Name, Time, Nothing

LEMMA NowIsTime ==
  ASSUME now \in Time
  PROVE  /\ now \in Nat
         /\ \A n \in Nat : [at |-> now, n |-> n] \in Name
  BY ConstantsOK DEF Assumptions, Time, Name

LEMMA TypedInit == Init => Typed
  BY ConstantsOK
  DEF Assumptions, Init, Typed, TypeOK, UploadStates, PassStates, SenderStates,
      Unborn, IdlePass, NoCopy, Time, Content, Nothing, NoName

LEMMA StateOf ==
  ASSUME Typed, NEW u \in Upload
  PROVE  upload[u] \in UploadStates
  BY DEF Typed

LEMMA StateNamed ==
  ASSUME NEW st \in UploadStates, NEW pc \in {"named", "writing"}, NEW since \in Nat,
         NEW name \in Name
  PROVE  [st EXCEPT !.pc = pc, !.since = since, !.name = name] \in UploadStates
  BY DEF UploadStates

LEMMA StateOpened ==
  ASSUME NEW st \in UploadStates, NEW ino \in SUBSET Upload
  PROVE  [st EXCEPT !.pc = "writing", !.ino = ino] \in UploadStates
  BY DEF UploadStates

LEMMA StateStarted ==
  ASSUME NEW st \in UploadStates, NEW since \in Nat, NEW name \in Name,
         NEW ino \in SUBSET Upload
  PROVE  [st EXCEPT !.pc = "writing", !.since = since, !.name = name, !.ino = ino]
           \in UploadStates
  <1> DEFINE new == [st EXCEPT !.pc = "writing", !.since = since, !.name = name]
  <1>1. new \in UploadStates
    BY StateNamed
  <1>2. [new EXCEPT !.pc = "writing", !.ino = ino] \in UploadStates
    BY <1>1, StateOpened
  <1>3. [new EXCEPT !.pc = "writing", !.ino = ino]
          = [st EXCEPT !.pc = "writing", !.since = since, !.name = name, !.ino = ino]
    BY DEF UploadStates
  <1> QED BY <1>2, <1>3

\* A step changes the state of one upload.
OnlyOf(u) ==
    /\ upload' \in [Upload -> UploadStates]
    /\ \A v \in Upload \ {u} : upload'[v] = upload[v]

LEMMA RecvNameMoves ==
  ASSUME Typed, NEW u \in Upload, RecvName(u)
  PROVE  /\ OnlyOf(u) /\ upload[u].pc = "unborn" /\ mode = "targz"
         /\ \E name \in Name :
              /\ name.at = now /\ FreeName(name)
              /\ upload'[u] = [upload[u] EXCEPT !.pc = "named", !.since = now,
                                                !.name = name]
              /\ excused' = IF \E v \in Upload : upload[v].name = name
                            THEN excused \cup {name} ELSE excused
         /\ UNCHANGED <<now, mode, files, latest, pass, sender, cold>>
  <1>1. PICK n \in {f.name.n + 1 : f \in files} \cup {0} :
          LET name == [at |-> now, n |-> n] IN
          /\ FreeName(name)
          /\ upload' = [upload EXCEPT ![u].pc = "named", ![u].since = now,
                                      ![u].name = name]
          /\ excused' = IF \E v \in Upload : upload[v].name = name
                        THEN excused \cup {name} ELSE excused
    BY DEF RecvName
  <1> DEFINE name == [at |-> now, n |-> n]
  <1>2. n \in Nat
    BY DEF Typed, TypeOK, File, Name
  <1>3. name \in Name /\ name.at = now /\ now \in Nat
    BY <1>2, NowIsTime DEF Typed, TypeOK
  <1> HIDE DEF name
  <1>4. upload' = [upload EXCEPT ![u] = [upload[u] EXCEPT !.pc = "named", !.since = now,
                                                !.name = name]]
    BY <1>1, <1>2 DEF Typed, UploadStates, name
  <1>5. [upload[u] EXCEPT !.pc = "named", !.since = now, !.name = name] \in UploadStates
    BY <1>3, StateOf, StateNamed
  <1>6. OnlyOf(u) /\ upload'[u] = [upload[u] EXCEPT !.pc = "named", !.since = now,
                                                   !.name = name]
    BY <1>4, <1>5 DEF OnlyOf, Typed
  <1>7. FreeName(name) /\ excused' = IF \E v \in Upload : upload[v].name = name
                                     THEN excused \cup {name} ELSE excused
    BY <1>1 DEF name
  <1> QED BY <1>3, <1>6, <1>7 DEF RecvName

\* The file that an upload opens or begins: that of the same name, which it
\* shares, or a new one.
Opened(u, name, part, same) ==
    {[ino |-> i, name |-> name, part |-> part,
      by |-> (UNION {f.by : f \in same}) \cup {u},
      content |-> "writing", mtime |-> now] :
        i \in IF same = {} THEN {u} ELSE {f.ino : f \in same}}

LEMMA OpenedTypes ==
  ASSUME Typed, NEW u \in Upload, NEW name \in Name, NEW part \in BOOLEAN,
         NEW same \in SUBSET files,
         \A f, g \in same : f = g
  PROVE  /\ Opened(u, name, part, same) \subseteq File
         /\ \A f, g \in Opened(u, name, part, same) : f = g
         /\ \A f \in Opened(u, name, part, same) :
             /\ f.name = name /\ (f.part <=> part) /\ f.content = "writing"
             /\ f.mtime = now
             /\ f.by = (UNION {g.by : g \in same}) \cup {u}
             /\ f.ino \in IF same = {} THEN {u} ELSE {g.ino : g \in same}
  <1> DEFINE by == (UNION {f.by : f \in same}) \cup {u}
             inos == IF same = {} THEN {u} ELSE {f.ino : f \in same}
  <1>1. same \subseteq File /\ now \in Time
    BY DEF Typed, TypeOK
  <1>2. by \subseteq Upload
    <2> DEFINE older == UNION {f.by : f \in same}
    <2>1. \A f \in same : f.by \subseteq Upload
      BY <1>1 DEF File
    <2>2. older \subseteq Upload
      BY <2>1
    <2>3. by = older \cup {u}
      OBVIOUS
    <2> HIDE DEF older, by
    <2> QED BY <2>2, <2>3
  <1>3. inos \subseteq Upload /\ \A i, j \in inos : i = j
    BY <1>1 DEF File
  <1>4. Opened(u, name, part, same) =
          {[ino |-> i, name |-> name, part |-> part, by |-> by,
            content |-> "writing", mtime |-> now] : i \in inos}
    BY DEF Opened
  <1> HIDE DEF by, inos
  <1>5. Opened(u, name, part, same) \subseteq File
    BY <1>1, <1>2, <1>3, <1>4 DEF File, Content
  <1>6. \A f, g \in Opened(u, name, part, same) : f = g
    BY <1>3, <1>4
  <1>7. \A f \in Opened(u, name, part, same) :
          /\ f.name = name /\ (f.part <=> part) /\ f.content = "writing"
          /\ f.mtime = now
          /\ f.by = by /\ f.ino \in inos
    BY <1>4
  <1> QED BY <1>5, <1>6, <1>7 DEF by, inos

LEMMA RecvOpenMoves ==
  ASSUME Typed, NEW u \in Upload, RecvOpen(u)
  PROVE  /\ OnlyOf(u) /\ upload[u].pc = "named" /\ mode = "targz"
         /\ \E same \in SUBSET files :
              /\ same = {f \in files : f.part /\ f.name = upload[u].name}
              /\ files' = (files \ same) \cup Opened(u, upload[u].name, TRUE, same)
              /\ upload'[u] = [upload[u] EXCEPT !.pc = "writing",
                                 !.ino = IF same = {} THEN {u} ELSE {f.ino : f \in same}]
         /\ UNCHANGED <<now, mode, latest, pass, sender, cold, excused>>
  <1> DEFINE same == {f \in files : f.part /\ f.name = upload[u].name}
             inos == IF same = {} THEN {u} ELSE {f.ino : f \in same}
  <1>1. /\ files' = (files \ same) \cup Opened(u, upload[u].name, TRUE, same)
        /\ upload' = [upload EXCEPT ![u].pc = "writing", ![u].ino = inos]
    BY DEF RecvOpen, Opened
  <1>2. inos \subseteq Upload
    BY DEF Typed, TypeOK, File
  <1> HIDE DEF inos
  <1>3. upload' = [upload EXCEPT ![u] = [upload[u] EXCEPT !.pc = "writing", !.ino = inos]]
    BY <1>1 DEF Typed, UploadStates
  <1>4. [upload[u] EXCEPT !.pc = "writing", !.ino = inos] \in UploadStates
    BY <1>2, StateOf, StateOpened
  <1>5. OnlyOf(u) /\ upload'[u] = [upload[u] EXCEPT !.pc = "writing", !.ino = inos]
    BY <1>3, <1>4 DEF OnlyOf, Typed
  <1>6. mode = "targz" /\ upload[u].pc = "named"
    BY DEF RecvOpen, Typed, TypeOK
  <1> QED BY <1>1, <1>5, <1>6 DEF RecvOpen, inos

LEMMA RsyncStartMoves ==
  ASSUME Typed, NEW u \in Upload, RsyncStart(u)
  PROVE  /\ OnlyOf(u) /\ upload[u].pc = "unborn" /\ mode = "rsync"
         /\ \E same \in SUBSET files, name \in Name :
              /\ name.at = now
              /\ same = {f \in files : f.name = name}
              /\ files' = (files \ same) \cup Opened(u, name, FALSE, same)
              /\ upload'[u] = [upload[u] EXCEPT !.pc = "writing", !.since = now,
                                 !.name = name,
                                 !.ino = IF same = {} THEN {u} ELSE {f.ino : f \in same}]
              /\ excused' = IF \E v \in Upload : upload[v].name = name
                            THEN excused \cup {name} ELSE excused
         /\ UNCHANGED <<now, mode, latest, pass, sender, cold>>
  <1> DEFINE name == [at |-> now, n |-> 0]
             same == {f \in files : f.name = name}
             inos == IF same = {} THEN {u} ELSE {f.ino : f \in same}
  <1>1. /\ files' = (files \ same) \cup Opened(u, name, FALSE, same)
        /\ upload' = [upload EXCEPT ![u].pc = "writing", ![u].since = now,
                                    ![u].name = name, ![u].ino = inos]
        /\ excused' = IF \E v \in Upload : upload[v].name = name
                      THEN excused \cup {name} ELSE excused
    BY DEF RsyncStart, Opened
  <1>2. inos \subseteq Upload /\ name \in Name /\ now \in Nat /\ name.at = now
    BY NowIsTime DEF Typed, TypeOK, File
  <1> HIDE DEF inos, name
  <1>3. upload' = [upload EXCEPT ![u] = [upload[u] EXCEPT !.pc = "writing", !.since = now,
                                                !.name = name, !.ino = inos]]
    BY <1>1 DEF Typed, UploadStates
  <1>4. [upload[u] EXCEPT !.pc = "writing", !.since = now, !.name = name, !.ino = inos]
          \in UploadStates
    BY <1>2, StateOf, StateStarted
  <1>5. /\ OnlyOf(u)
        /\ upload'[u] = [upload[u] EXCEPT !.pc = "writing", !.since = now,
                                         !.name = name, !.ino = inos]
    BY <1>3, <1>4 DEF OnlyOf, Typed
  <1> QED BY <1>1, <1>2, <1>5 DEF RsyncStart, inos

\* The end of the data: what the upload has open is as it left it.
Written(u, content) ==
    (files \ FileOf(u)) \cup {Left(f, u, content) : f \in FileOf(u)}

LEMMA DataEnds ==
  ASSUME Typed, NEW u \in Upload, NEW content \in {"whole", "short"},
         RecvEof(u, content) \/ (content = "whole" /\ RsyncDone(u))
  PROVE  /\ OnlyOf(u) /\ upload[u].pc = "writing"
         /\ files' = Written(u, content)
         /\ IF mode = "targz"
            THEN upload'[u] = [upload[u] EXCEPT !.pc = "move", !.sent = content]
            ELSE /\ upload'[u] = [upload[u] EXCEPT !.pc = "flip"]
                 /\ FileOf(u) # {} /\ content = "whole"
         /\ UNCHANGED <<now, mode, latest, pass, sender, cold, excused>>
  <1> USE DEF Typed, UploadStates, OnlyOf, Content
  <1>1. CASE RecvEof(u, content)
    <2>1. upload' = [upload EXCEPT ![u] = [upload[u] EXCEPT !.pc = "move",
                                                          !.sent = content]]
      BY <1>1 DEF RecvEof
    <2> QED BY <1>1, <2>1 DEF RecvEof, Written
  <1>2. CASE content = "whole" /\ RsyncDone(u)
    <2>1. upload' = [upload EXCEPT ![u] = [upload[u] EXCEPT !.pc = "flip"]]
      BY <1>2 DEF RsyncDone
    <2> QED BY <1>2, <2>1 DEF RsyncDone, Written
  <1> QED BY <1>1, <1>2

LEMMA WrittenTypes ==
  ASSUME Typed, NEW u \in Upload, NEW content \in {"whole", "short"}
  PROVE  \A g \in Written(u, content) :
           \/ g \in files \ FileOf(u)
           \/ \E f \in FileOf(u) :
                /\ g = Left(f, u, content)
                /\ g.ino = f.ino /\ g.name = f.name /\ g.part = f.part /\ g.by = f.by
                /\ g.mtime = now /\ g \in File
                /\ g.content = IF f.by = {u} THEN content ELSE "short"
  <1> SUFFICES ASSUME NEW f \in FileOf(u)
               PROVE  LET g == Left(f, u, content) IN
                      /\ g.ino = f.ino /\ g.name = f.name /\ g.part = f.part /\ g.by = f.by
                      /\ g.mtime = now /\ g \in File
                      /\ g.content = IF f.by = {u} THEN content ELSE "short"
    BY DEF Written
  <1>1. f \in File /\ now \in Time
    BY DEF Typed, TypeOK, FileOf
  <1> QED BY <1>1 DEF Left, File, Content

LEMMA EndsMoves ==
  ASSUME Typed, NEW u \in Upload, NEW outcome \in {"ok", "failed"}, Ends(u, outcome)
  PROVE  /\ OnlyOf(u)
         /\ upload'[u] = [upload[u] EXCEPT !.pc = "ended", !.outcome = outcome,
                                           !.sent = "writing"]
  <1> USE DEF Typed, UploadStates, OnlyOf, Content
  <1>1. upload' = [upload EXCEPT ![u] = [upload[u] EXCEPT !.pc = "ended",
                                     !.outcome = outcome, !.sent = "writing"]]
    BY DEF Ends
  <1>2. [upload[u] EXCEPT !.pc = "ended", !.outcome = outcome, !.sent = "writing"]
          \in UploadStates
    BY StateOf DEF UploadStates
  <1> QED BY <1>1, <1>2

\* The receiver has moved its file, or found it gone.
LEMMA RecvMoveMoves ==
  ASSUME Typed, NEW u \in Upload, RecvMove(u)
  PROVE  /\ OnlyOf(u) /\ upload[u].pc = "move" /\ mode = "targz"
         /\ \E parts \in SUBSET files, over \in SUBSET files :
              /\ parts = {f \in files : f.part /\ f.name = upload[u].name}
              /\ over = {f \in files : ~f.part /\ f.name = upload[u].name /\ parts # {}}
              /\ files' = (files \ (parts \cup over)) \cup
                            {[f EXCEPT !.part = FALSE] : f \in parts}
              /\ \E outcome \in {"ok", "failed"} :
                  /\ outcome = "ok" <=> parts # {} /\ upload[u].sent = "whole"
                  /\ upload'[u] = [upload[u] EXCEPT !.pc = "ended", !.outcome = outcome,
                                                    !.sent = "writing"]
         /\ UNCHANGED <<now, mode, latest, pass, sender, cold, excused>>
  <1> DEFINE parts == {f \in files : f.part /\ f.name = upload[u].name}
             over == {f \in files : ~f.part /\ f.name = upload[u].name /\ parts # {}}
             outcome == IF parts # {} /\ upload[u].sent = "whole" THEN "ok" ELSE "failed"
  <1>1. Ends(u, outcome)
    BY DEF RecvMove, MoveExitsOk
  <1>2. /\ outcome \in {"ok", "failed"}
        /\ outcome = "ok" <=> parts # {} /\ upload[u].sent = "whole"
    OBVIOUS
  <1>3. /\ OnlyOf(u)
        /\ upload'[u] = [upload[u] EXCEPT !.pc = "ended", !.outcome = outcome,
                                          !.sent = "writing"]
    <2> HIDE DEF outcome
    <2> QED BY <1>1, <1>2, EndsMoves
  <1>4. {f \in Replaced(upload[u].name) : parts # {}} = over
    BY DEF Replaced
  <1>5. files' = (files \ (parts \cup over)) \cup
                   {[f EXCEPT !.part = FALSE] : f \in parts}
    BY <1>4 DEF RecvMove
  <1>6. upload[u].pc = "move" /\ mode = "targz"
    BY DEF RecvMove, Typed, TypeOK
  <1>7. UNCHANGED <<now, mode, latest, pass, sender, cold, excused>>
    BY DEF RecvMove
  <1>8. parts \in SUBSET files /\ over \in SUBSET files
    OBVIOUS
  <1> HIDE DEF outcome
  <1> QED BY <1>2, <1>3, <1>5, <1>6, <1>7, <1>8

LEMMA MovedTypes ==
  ASSUME Typed, NEW parts \in SUBSET files, NEW f \in parts
  PROVE  LET g == [f EXCEPT !.part = FALSE] IN
         /\ g \in File /\ ~g.part /\ g.ino = f.ino /\ g.name = f.name /\ g.by = f.by
         /\ g.content = f.content /\ g.mtime = f.mtime
  <1>1. f \in File
    BY DEF Typed, TypeOK
  <1> QED BY <1>1 DEF File

FilesTyped ==
    /\ files \subseteq File
    /\ \A f, g \in files : f.name = g.name /\ (f.part <=> g.part) => f = g
    /\ mode = "rsync" => \A f \in files : ~f.part

UploadTyped(st) ==
    /\ IF st.pc = "unborn" THEN st = Unborn
       ELSE /\ st.name \in Name
            /\ st.since = st.name.at
    /\ mode = "targz" => st.pc # "flip"
    /\ mode = "rsync" => st.pc \notin {"named", "move"}

UploadsTyped ==
    /\ upload \in [Upload -> UploadStates]
    /\ \A u \in Upload : UploadTyped(upload[u])

RestTyped ==
    /\ now \in Time /\ mode \in {"targz", "rsync"}
    /\ latest \in Name \cup {NoName}
    /\ mode = "targz" => latest = NoName
    /\ pass \in PassStates
    /\ sender \in SenderStates
    /\ cold \subseteq [name: Name, content: Content]
    /\ excused \subseteq Name

LEMMA TypedParts == Typed <=> FilesTyped /\ UploadsTyped /\ RestTyped
  <1>1. ASSUME Typed PROVE FilesTyped /\ UploadsTyped /\ RestTyped
    <2>1. \A f \in files : f.part \in BOOLEAN
      BY <1>1 DEF Typed, TypeOK, File
    <2>2. \A f, g \in files : (f.part <=> g.part) => f.part = g.part
      BY <2>1
    <2> QED BY <1>1, <2>2
         DEF Typed, TypeOK, FilesTyped, UploadsTyped, UploadTyped, RestTyped
  <1>2. ASSUME FilesTyped, UploadsTyped, RestTyped PROVE Typed
    <2>1. \A u \in Upload : upload[u] \in UploadStates
      BY <1>2 DEF UploadsTyped
    <2>2. \A u \in Upload :
            /\ upload[u].pc \in {"unborn", "named", "writing", "move", "flip", "ended"}
            /\ upload[u].name \in Name \cup {NoName}
            /\ upload[u].outcome \in {"none", "ok", "failed"}
      BY <2>1 DEF UploadStates
    <2>3. pass.pc \in {"idle", "parts", "hot"}
      BY <1>2 DEF RestTyped, PassStates
    <2>4. sender \in [name: Name \cup {NoName}, content: Content]
      BY <1>2 DEF RestTyped, SenderStates, NoCopy, Content
    <2> QED BY <1>2, <2>2, <2>3, <2>4
         DEF Typed, TypeOK, FilesTyped, UploadsTyped, UploadTyped, RestTyped
  <1> QED BY <1>1, <1>2

\* A step takes files away and puts others in their place.
LEMMA FilesTypedStep ==
  ASSUME FilesTyped, mode' = mode,
         NEW old \in SUBSET files, NEW new \in SUBSET File,
         files' = (files \ old) \cup new,
         \A f, g \in new : f.name = g.name /\ (f.part <=> g.part) => f = g,
         \A f \in files \ old, g \in new : ~(f.name = g.name /\ (f.part <=> g.part)),
         mode = "rsync" => \A f \in new : ~f.part
  PROVE  FilesTyped'
  BY DEF FilesTyped

LEMMA UploadsTypedStep ==
  ASSUME Typed, NEW u \in Upload, OnlyOf(u), mode' = mode, UploadTyped(upload'[u])
  PROVE  UploadsTyped'
  <1>1. \A v \in Upload : UploadTyped(upload[v])
    BY TypedParts DEF UploadsTyped
  <1>2. \A v \in Upload : UploadTyped(upload'[v])
    BY <1>1 DEF OnlyOf
  <1>3. \A v \in Upload : UploadTyped(upload[v])'
    BY <1>2 DEF UploadTyped
  <1> QED BY <1>3 DEF UploadsTyped, OnlyOf

LEMMA UploadStepTyped ==
  ASSUME Typed, NEW u \in Upload, UploadStep(u)
  PROVE  Typed'
  <1> USE DEF UploadTyped
  <1>0. FilesTyped /\ UploadsTyped /\ RestTyped /\ UploadTyped(upload[u])
    BY TypedParts DEF UploadsTyped
  <1>s. upload[u] \in UploadStates
    BY StateOf
  <1>t. now \in Time /\ now \in Nat
    BY NowIsTime DEF Typed, TypeOK
  <1> SUFFICES FilesTyped' /\ UploadsTyped' /\ RestTyped'
    BY TypedParts, PTL
  <1>1. CASE RecvName(u)
    <2>1. PICK name \in Name :
            /\ name.at = now
            /\ upload'[u] = [upload[u] EXCEPT !.pc = "named", !.since = now,
                                              !.name = name]
            /\ excused' = IF \E v \in Upload : upload[v].name = name
                          THEN excused \cup {name} ELSE excused
      BY <1>1, RecvNameMoves
    <2>2. OnlyOf(u) /\ mode = "targz"
          /\ UNCHANGED <<now, mode, files, latest, pass, sender, cold>>
      BY <1>1, RecvNameMoves
    <2>3. UploadTyped(upload'[u])
      BY <2>1, <2>2, <1>s DEF UploadStates
    <2>4. UploadsTyped'
      BY <2>2, <2>3, UploadsTypedStep
    <2>5. FilesTyped' /\ RestTyped'
      BY <1>0, <2>1, <2>2 DEF FilesTyped, RestTyped
    <2> QED BY <2>4, <2>5
  <1>2. CASE RecvOpen(u)
    <2>1. PICK same \in SUBSET files :
            /\ same = {f \in files : f.part /\ f.name = upload[u].name}
            /\ files' = (files \ same) \cup Opened(u, upload[u].name, TRUE, same)
            /\ upload'[u] = [upload[u] EXCEPT !.pc = "writing",
                               !.ino = IF same = {} THEN {u} ELSE {f.ino : f \in same}]
      BY <1>2, RecvOpenMoves
    <2>2. OnlyOf(u) /\ mode = "targz" /\ upload[u].pc = "named"
          /\ UNCHANGED <<now, mode, latest, pass, sender, cold, excused>>
      BY <1>2, RecvOpenMoves
    <2>3. UploadTyped(upload'[u])
      BY <2>1, <2>2, <1>0, <1>s DEF UploadStates
    <2>4. UploadsTyped'
      BY <2>2, <2>3, UploadsTypedStep
    <2>5. upload[u].name \in Name /\ \A f, g \in same : f = g
      BY <1>0, <2>1, <2>2 DEF FilesTyped
    <2> DEFINE new == Opened(u, upload[u].name, TRUE, same)
    <2>6. /\ new \in SUBSET File
          /\ \A f, g \in new : f = g
          /\ \A f \in new : f.name = upload[u].name /\ f.part
      <3>1. new \subseteq File
        BY <2>5, OpenedTypes
      <3>2. \A f, g \in new : f = g
        BY <2>5, OpenedTypes
      <3>3. \A f \in new : f.name = upload[u].name /\ f.part
        BY DEF Opened
      <3> HIDE DEF new
      <3> QED BY <3>1, <3>2, <3>3
    <2> HIDE DEF new
    <2>7. \A f \in files \ same, g \in new : ~(f.name = g.name /\ (f.part <=> g.part))
      BY <2>1, <2>6
    <2>8. files' = (files \ same) \cup new
      BY <2>1 DEF new
    <2>9. FilesTyped'
      BY <1>0, <2>2, <2>6, <2>7, <2>8, FilesTypedStep
    <2> QED BY <1>0, <2>2, <2>4, <2>9 DEF RestTyped
  <1>3. CASE RecvWrite(u)
    <2>1. PICK f \in FileOf(u) : files' = (files \ {f}) \cup {[f EXCEPT !.mtime = now]}
      BY <1>3 DEF RecvWrite
    <2>2. f \in files /\ f \in File
      BY <1>0 DEF FileOf, FilesTyped
    <2> DEFINE g == [f EXCEPT !.mtime = now]
    <2>3. g \in File /\ g.name = f.name /\ (g.part <=> f.part)
      BY <1>t, <2>2 DEF File
    <2>4. UNCHANGED <<now, mode, latest, upload, pass, sender, cold, excused>>
      BY <1>3 DEF RecvWrite
    <2> HIDE DEF g
    <2>5. \A h \in files \ {f} : ~(h.name = g.name /\ (h.part <=> g.part))
      BY <1>0, <2>2, <2>3 DEF FilesTyped
    <2>6. files' = (files \ {f}) \cup {g}
      BY <2>1 DEF g
    <2>7. mode = "rsync" => ~g.part
      BY <1>0, <2>2, <2>3 DEF FilesTyped
    <2>8. FilesTyped'
      <3>1. {f} \in SUBSET files /\ {g} \in SUBSET File /\ mode' = mode
        BY <2>2, <2>3, <2>4
      <3>2. \A h \in files \ {f}, k \in {g} : ~(h.name = k.name /\ (h.part <=> k.part))
        BY <2>5
      <3>3. \A h, k \in {g} : h.name = k.name /\ (h.part <=> k.part) => h = k
        OBVIOUS
      <3>4. mode = "rsync" => \A h \in {g} : ~h.part
        BY <2>7
      <3> QED BY <1>0, <2>6, <3>1, <3>2, <3>3, <3>4, FilesTypedStep
    <2> QED BY <1>0, <2>4, <2>8 DEF RestTyped, UploadsTyped
  <1>4. ASSUME NEW content \in {"whole", "short"},
               RecvEof(u, content) \/ (content = "whole" /\ RsyncDone(u))
        PROVE  FilesTyped' /\ UploadsTyped' /\ RestTyped'
    <2>1. /\ OnlyOf(u) /\ upload[u].pc = "writing"
          /\ files' = Written(u, content)
          /\ IF mode = "targz"
             THEN upload'[u] = [upload[u] EXCEPT !.pc = "move", !.sent = content]
             ELSE upload'[u] = [upload[u] EXCEPT !.pc = "flip"]
          /\ UNCHANGED <<now, mode, latest, pass, sender, cold, excused>>
      BY <1>4, DataEnds
    <2>2. UploadTyped(upload'[u])
      BY <2>1, <1>0, <1>s DEF UploadStates
    <2>3. UploadsTyped'
      BY <2>1, <2>2, UploadsTypedStep
    <2>4. \A g \in files' :
            \/ g \in files \ FileOf(u)
            \/ \E f \in FileOf(u) : /\ g = Left(f, u, content) /\ g \in File
                                    /\ g.name = f.name /\ g.part = f.part
      BY <2>1, WrittenTypes
    <2>5. FileOf(u) \subseteq files
      BY DEF FileOf
    <2>6. \A g, h \in files' : g.name = h.name /\ (g.part <=> h.part) => g = h
      BY <1>0, <2>4, <2>5 DEF FilesTyped
    <2>7. FilesTyped'
      BY <1>0, <2>1, <2>4, <2>5, <2>6 DEF FilesTyped
    <2> QED BY <1>0, <2>1, <2>3, <2>7 DEF RestTyped
  <1>5. CASE RecvMove(u)
    <2>1. PICK parts \in SUBSET files, over \in SUBSET files :
            /\ parts = {f \in files : f.part /\ f.name = upload[u].name}
            /\ over = {f \in files : ~f.part /\ f.name = upload[u].name /\ parts # {}}
            /\ files' = (files \ (parts \cup over)) \cup
                          {[f EXCEPT !.part = FALSE] : f \in parts}
            /\ \E outcome \in {"ok", "failed"} :
                upload'[u] = [upload[u] EXCEPT !.pc = "ended", !.outcome = outcome,
                                               !.sent = "writing"]
      BY <1>5, RecvMoveMoves
    <2>2. OnlyOf(u) /\ mode = "targz" /\ upload[u].pc = "move"
          /\ UNCHANGED <<now, mode, latest, pass, sender, cold, excused>>
      BY <1>5, RecvMoveMoves
    <2>3. UploadTyped(upload'[u])
      BY <2>1, <2>2, <1>0, <1>s DEF UploadStates
    <2>4. UploadsTyped'
      BY <2>2, <2>3, UploadsTypedStep
    <2> DEFINE new == {[f EXCEPT !.part = FALSE] : f \in parts}
    <2>5. \A f \in parts : LET g == [f EXCEPT !.part = FALSE]
                           IN  g \in File /\ g.name = f.name /\ ~g.part
      BY MovedTypes
    <2>6. new \in SUBSET File /\ \A g \in new : g.name = upload[u].name /\ ~g.part
      <3>1. \A f \in parts : f.name = upload[u].name
        BY <2>1
      <3> QED BY <2>5, <3>1
    <2>7. \A f, g \in parts : f = g
      BY <1>0, <2>1 DEF FilesTyped
    <2>8. \A f, g \in new : f = g
      BY <2>7
    <2>9. new # {} => parts # {}
      OBVIOUS
    <2>10. files' = (files \ (parts \cup over)) \cup new
      BY <2>1
    <2> HIDE DEF new
    <2>11. \A f \in files \ (parts \cup over), g \in new :
             ~(f.name = g.name /\ (f.part <=> g.part))
      BY <2>1, <2>6, <2>9
    <2>12. FilesTyped'
      <3>1. (parts \cup over) \in SUBSET files /\ mode' = mode
        BY <2>2
      <3>2. \A f, g \in new : f.name = g.name /\ (f.part <=> g.part) => f = g
        BY <2>8
      <3>3. mode = "rsync" => \A f \in new : ~f.part
        BY <2>2
      <3> QED BY <1>0, <2>6, <2>10, <2>11, <3>1, <3>2, <3>3, FilesTypedStep
    <2> QED BY <1>0, <2>2, <2>4, <2>12 DEF RestTyped
  <1>6. ASSUME NEW outcome \in {"ok", "failed"}, Ends(u, outcome),
               upload[u].pc # "unborn",
               latest' = latest \/ (latest' = upload[u].name /\ mode = "rsync"),
               UNCHANGED <<now, mode, files, pass, sender, cold, excused>>
        PROVE  FilesTyped' /\ UploadsTyped' /\ RestTyped'
    <2>1. OnlyOf(u) /\ upload'[u] = [upload[u] EXCEPT !.pc = "ended", !.outcome = outcome,
                                                     !.sent = "writing"]
      BY <1>6, EndsMoves
    <2>2. UploadTyped(upload'[u])
      BY <2>1, <1>0, <1>6, <1>s DEF UploadStates
    <2>3. UploadsTyped'
      BY <1>6, <2>1, <2>2, UploadsTypedStep
    <2>4. FilesTyped' /\ RestTyped'
      BY <1>0, <1>6 DEF FilesTyped, RestTyped
    <2> QED BY <2>3, <2>4
  <1>7. CASE RecvKilled(u) \/ RsyncFails(u)
    BY <1>6, <1>7 DEF RecvKilled, RsyncFails, Working
  <1>8. CASE FlipLatest(u)
    <2>1. mode = "rsync"
      BY <1>0, <1>8 DEF FlipLatest, Flips, RestTyped
    <2> QED BY <1>6, <1>8, <2>1 DEF FlipLatest, Flips
  <1>9. CASE RsyncStart(u)
    <2>1. PICK same \in SUBSET files, name \in Name :
            /\ name.at = now
            /\ same = {f \in files : f.name = name}
            /\ files' = (files \ same) \cup Opened(u, name, FALSE, same)
            /\ upload'[u] = [upload[u] EXCEPT !.pc = "writing", !.since = now,
                               !.name = name,
                               !.ino = IF same = {} THEN {u} ELSE {f.ino : f \in same}]
            /\ excused' = IF \E v \in Upload : upload[v].name = name
                          THEN excused \cup {name} ELSE excused
      BY <1>9, RsyncStartMoves
    <2>2. OnlyOf(u) /\ mode = "rsync"
          /\ UNCHANGED <<now, mode, latest, pass, sender, cold>>
      BY <1>9, RsyncStartMoves
    <2>3. UploadTyped(upload'[u])
      BY <2>1, <2>2, <1>s DEF UploadStates
    <2>4. UploadsTyped'
      BY <2>2, <2>3, UploadsTypedStep
    <2>5. \A f, g \in same : f = g
      BY <1>0, <2>1, <2>2 DEF FilesTyped
    <2> DEFINE new == Opened(u, name, FALSE, same)
    <2>6. /\ new \in SUBSET File
          /\ \A f, g \in new : f = g
          /\ \A f \in new : f.name = name /\ ~f.part
      <3>1. new \subseteq File
        BY <2>5, OpenedTypes
      <3>2. \A f, g \in new : f = g
        BY <2>5, OpenedTypes
      <3>3. \A f \in new : f.name = name /\ ~f.part
        BY DEF Opened
      <3> HIDE DEF new
      <3> QED BY <3>1, <3>2, <3>3
    <2> HIDE DEF new
    <2>7. \A f \in files \ same, g \in new : ~(f.name = g.name /\ (f.part <=> g.part))
      BY <2>1, <2>6
    <2>8. files' = (files \ same) \cup new
      BY <2>1 DEF new
    <2>9. FilesTyped'
      <3>1. same \in SUBSET files /\ new \in SUBSET File /\ mode' = mode
        BY <2>2, <2>6
      <3>2. \A f, g \in new : f.name = g.name /\ (f.part <=> g.part) => f = g
        BY <2>6
      <3>3. mode = "rsync" => \A f \in new : ~f.part
        BY <2>6
      <3> QED BY <1>0, <2>7, <2>8, <3>1, <3>2, <3>3, FilesTypedStep
    <2>10. RestTyped'
      BY <1>0, <2>1, <2>2 DEF RestTyped
    <2> QED BY <2>4, <2>9, <2>10
  <1> QED BY <1>1, <1>2, <1>3, <1>4, <1>5, <1>7, <1>8, <1>9 DEF UploadStep

\* The lifecycle worker takes files away and changes its own state only.
LEMMA PassMoves ==
  ASSUME Typed, PassStep
  PROVE  /\ files' \subseteq files /\ pass' \in PassStates
         /\ UNCHANGED <<now, mode, latest, upload, sender, cold, excused>>
  <1>1. CASE PassList
    <2>1. \A f \in files : CreatedAt(f) \in Time /\ f.name \in Name
      BY DEF Typed, TypeOK, CreatedAt, File, Name
    <2>2. Listing \subseteq [name: Name, at: Time]
      BY <2>1 DEF Listing
    <2>3. Recorded \subseteq Name
      BY DEF Typed, TypeOK, Recorded
    <2> QED BY <1>1, <2>2, <2>3 DEF PassList, PassStates
  <1>2. CASE PassParts
    BY <1>2 DEF PassParts, Typed, PassStates
  <1>3. CASE PassDelete
    <2>1. PICK s \in pass.snaps :
            /\ files' = IF Refuses(s.name) THEN files
                        ELSE {f \in files : f.part \/ f.name # s.name}
            /\ pass' = [pass EXCEPT !.snaps = pass.snaps \ {s}]
      BY <1>3 DEF PassDelete
    <2>2. UNCHANGED <<now, mode, latest, upload, sender, cold, excused>>
      BY <1>3 DEF PassDelete
    <2> QED BY <2>1, <2>2 DEF Typed, PassStates
  <1>4. CASE PassEnd
    BY <1>4 DEF PassEnd, Typed, PassStates, IdlePass
  <1> QED BY <1>1, <1>2, <1>3, <1>4 DEF PassStep

LEMMA SenderMoves ==
  ASSUME Typed, SenderStep
  PROVE  /\ sender' \in SenderStates
         /\ cold' \subseteq [name: Name, content: Content]
         /\ excused' \subseteq Name
         /\ UNCHANGED <<now, mode, files, latest, upload, pass>>
  <1>1. CASE SenderTake
    <2>1. PICK f \in files :
            /\ sender' = [name |-> f.name, content |-> f.content]
            /\ excused' = IF mode = "rsync" /\ f.content = "writing"
                          THEN excused \cup {f.name} ELSE excused
      BY <1>1 DEF SenderTake
    <2>2. f.name \in Name /\ f.content \in Content
      BY DEF Typed, TypeOK, File
    <2> QED BY <1>1, <2>1, <2>2 DEF SenderTake, Typed, TypeOK, SenderStates
  <1>2. CASE SenderRecord
    <2>1. sender \in [name: Name, content: Content]
      BY <1>2 DEF SenderRecord, Typed, SenderStates
    <2> QED BY <1>2, <2>1 DEF SenderRecord, Typed, TypeOK, SenderStates
  <1>3. CASE SenderFails
    BY <1>3 DEF SenderFails, Typed, TypeOK, SenderStates
  <1> QED BY <1>1, <1>2, <1>3 DEF SenderStep

LEMMA TypedNext == Typed /\ [Next]_vars => Typed'
  <1> SUFFICES ASSUME Typed, [Next]_vars PROVE Typed'
    OBVIOUS
  <1>0. FilesTyped /\ UploadsTyped /\ RestTyped
    BY TypedParts
  <1>p. (FilesTyped' /\ UploadsTyped' /\ RestTyped') => Typed'
    BY TypedParts, PTL
  <1>1. CASE Tick
    <2>1. now' \in Time
      BY <1>0, <1>1, ConstantsOK DEF Tick, RestTyped, Time, Assumptions
    <2> QED BY <1>0, <1>1, <1>p, <2>1
         DEF Tick, FilesTyped, UploadsTyped, UploadTyped, RestTyped
  <1>2. CASE PassStep
    BY <1>0, <1>2, <1>p, PassMoves
    DEF FilesTyped, UploadsTyped, UploadTyped, RestTyped
  <1>3. CASE SenderStep
    BY <1>0, <1>3, <1>p, SenderMoves
    DEF FilesTyped, UploadsTyped, UploadTyped, RestTyped
  <1>4. ASSUME NEW u \in Upload, UploadStep(u) PROVE Typed'
    BY <1>4, UploadStepTyped
  <1>5. CASE UNCHANGED vars
    BY <1>0, <1>5, <1>p DEF vars, FilesTyped, UploadsTyped, UploadTyped, RestTyped
  <1> QED BY <1>1, <1>2, <1>3, <1>4, <1>5 DEF Next

LEMMA TypedAlways == Spec => []Typed
  BY TypedInit, TypedNext, PTL DEF Spec

\* Variables keep to their types, and no two archives, directories or .part
\* files have the same name.
THEOREM TypeCorrect == Spec => []TypeOK
  <1>1. Typed => TypeOK
    BY DEF Typed
  <1> QED BY TypedAlways, <1>1, PTL

-----------------------------------------------------------------------------
(* Whose files they are.  A name that is not excused is that of one upload:*)
(* what is done to the files and copies of that name is done by it, by the *)
(* lifecycle worker or by the uploader.                                    *)

Used(name) == \E v \in Upload : upload[v].name = name

Named ==
    /\ \A f \in files : f.name = upload[f.ino].name /\ f.name.at <= f.mtime
    /\ \A u \in Upload :
        /\ upload[u].name.at <= now
        /\ \A i \in upload[u].ino : upload[i].name = upload[u].name
        /\ upload[u].pc \in {"writing", "move", "flip"} => upload[u].ino # {}
        /\ upload[u].outcome = "ok" => upload[u].pc = "ended"
    /\ \A c \in cold : Used(c.name)
    /\ sender # NoCopy => Used(sender.name)
    /\ \A s \in pass.snaps : s.name.at <= s.at
    /\ pass.offsited \subseteq Recorded

Apart ==
    \A u, v \in Upload :
        u # v /\ upload[u].pc # "unborn" /\ upload[v].name = upload[u].name
            => upload[u].name \in excused

\* What a step of upload u does, whichever it is: it may take a name, and it
\* changes files of its name only.
Effect(u) ==
    /\ OnlyOf(u)
    /\ upload[u].pc # "ended" /\ upload'[u].pc # "unborn"
    /\ upload'[u].name \in Name /\ upload'[u].name.at <= now
    /\ IF upload[u].pc = "unborn"
       THEN /\ upload'[u].name.at = now
            /\ Used(upload'[u].name) => upload'[u].name \in excused'
       ELSE upload'[u].name = upload[u].name
    /\ excused \subseteq excused'
    /\ \A f \in files : f.name # upload'[u].name => f \in files'
    /\ \A g \in files' \ files :
        /\ g.name = upload'[u].name /\ g.name.at <= g.mtime
        /\ g.ino = u \/ \E f \in files : f.ino = g.ino /\ f.name = g.name
    /\ \A i \in upload'[u].ino : i = u \/ upload[i].name = upload'[u].name
    /\ upload'[u].pc \in {"writing", "move", "flip"} => upload'[u].ino # {}
    /\ upload'[u].outcome = "ok" => upload'[u].pc = "ended"
    /\ upload'[u].pc = "flip" => \E f \in files' : f.name = upload'[u].name
    /\ \/ latest' = latest
       \/ /\ upload[u].pc = "flip" /\ upload'[u].pc = "ended"
          /\ latest' = upload[u].name /\ files' = files
    /\ UNCHANGED <<now, mode, pass, sender, cold>>

\* What an upload writes into has its name.
LEMMA FileOfName ==
  ASSUME Typed, Named, NEW u \in Upload, NEW f \in FileOf(u)
  PROVE  f \in files /\ f \in File /\ f.name = upload[u].name
  BY DEF FileOf, Named, Typed, TypeOK

LEMMA BornTypes ==
  ASSUME Typed, NEW u \in Upload, upload[u].pc # "unborn"
  PROVE  upload[u].name \in Name /\ upload[u].since = upload[u].name.at
  BY DEF Typed

LEMMA UnbornTypes ==
  ASSUME Typed, NEW u \in Upload, upload[u].pc = "unborn"
  PROVE  upload[u].name = NoName /\ upload[u].ino = {} /\ upload[u].outcome = "none"
  BY DEF Typed, Unborn

LEMMA UploadEffect ==
  ASSUME Typed, Named, NEW u \in Upload, UploadStep(u)
  PROVE  Effect(u)
  <1> USE DEF Used
  <1>s. upload[u] \in UploadStates
    BY StateOf
  <1>t. now \in Time /\ now \in Nat /\ excused \subseteq Name
    BY NowIsTime DEF Typed, TypeOK
  <1>b. upload[u].pc # "unborn" => upload[u].name \in Name
    BY BornTypes
  <1>n. upload[u].name.at <= now
    BY DEF Named
  <1>1. CASE RecvName(u)
    <2>1. PICK name \in Name :
            /\ name.at = now
            /\ upload'[u] = [upload[u] EXCEPT !.pc = "named", !.since = now,
                                              !.name = name]
            /\ excused' = IF \E v \in Upload : upload[v].name = name
                          THEN excused \cup {name} ELSE excused
      BY <1>1, RecvNameMoves
    <2>2. /\ OnlyOf(u) /\ upload[u].pc = "unborn"
          /\ UNCHANGED <<now, mode, files, latest, pass, sender, cold>>
      BY <1>1, RecvNameMoves
    <2>3. upload[u].ino = {} /\ upload[u].outcome = "none"
      BY <2>2, UnbornTypes
    <2>4. /\ upload'[u].pc = "named" /\ upload'[u].name = name
          /\ upload'[u].ino = {} /\ upload'[u].outcome = "none"
      BY <1>s, <2>1, <2>3 DEF UploadStates
    <2> QED BY <1>t, <2>1, <2>2, <2>4 DEF Effect
  <1>2. CASE RecvOpen(u)
    <2>1. PICK same \in SUBSET files :
            /\ same = {f \in files : f.part /\ f.name = upload[u].name}
            /\ files' = (files \ same) \cup Opened(u, upload[u].name, TRUE, same)
            /\ upload'[u] = [upload[u] EXCEPT !.pc = "writing",
                               !.ino = IF same = {} THEN {u} ELSE {f.ino : f \in same}]
      BY <1>2, RecvOpenMoves
    <2>2. /\ OnlyOf(u) /\ upload[u].pc = "named"
          /\ UNCHANGED <<now, mode, latest, pass, sender, cold, excused>>
      BY <1>2, RecvOpenMoves
    <2>3. /\ upload'[u].pc = "writing" /\ upload'[u].name = upload[u].name
          /\ upload'[u].ino = IF same = {} THEN {u} ELSE {f.ino : f \in same}
          /\ upload'[u].outcome = upload[u].outcome
      BY <1>s, <2>1 DEF UploadStates
    <2>4. \A g \in Opened(u, upload[u].name, TRUE, same) :
            /\ g.name = upload[u].name /\ g.mtime = now
            /\ g.ino = u \/ \E f \in same : f.ino = g.ino /\ f.name = g.name
      BY <2>1 DEF Opened
    <2>5. \A f \in same : f.name = upload[u].name /\ upload[f.ino].name = f.name
      BY <2>1 DEF Named
    <2>6. upload[u].outcome # "ok"
      BY <2>2 DEF Named
    <2>7. \A f \in files : f.name # upload'[u].name => f \in files'
      BY <2>1, <2>3
    <2>8. \A g \in files' \ files :
            /\ g.name = upload'[u].name /\ g.name.at <= g.mtime
            /\ g.ino = u \/ \E f \in files : f.ino = g.ino /\ f.name = g.name
      BY <1>n, <2>1, <2>3, <2>4
    <2>9. /\ upload'[u].ino # {}
          /\ \A i \in upload'[u].ino : i = u \/ upload[i].name = upload'[u].name
      BY <2>3, <2>5
    <2> QED BY <1>n, <1>b, <2>2, <2>3, <2>6, <2>7, <2>8, <2>9 DEF Effect
  <1>3. CASE RecvWrite(u)
    <2>1. PICK f \in FileOf(u) : files' = (files \ {f}) \cup {[f EXCEPT !.mtime = now]}
      BY <1>3 DEF RecvWrite
    <2>2. f \in files /\ f \in File /\ f.name = upload[u].name
      BY <2>1, FileOfName
    <2> DEFINE g == [f EXCEPT !.mtime = now]
    <2>3. g.name = f.name /\ g.ino = f.ino /\ g.mtime = now
      BY <1>t, <2>2 DEF File
    <2>4. /\ UNCHANGED <<now, mode, latest, upload, pass, sender, cold, excused>>
          /\ upload[u].pc = "writing"
      BY <1>3 DEF RecvWrite
    <2>5. OnlyOf(u)
      BY <2>4 DEF OnlyOf, Typed
    <2>6. files' = (files \ {f}) \cup {g}
      BY <2>1
    <2> HIDE DEF g
    <2> QED BY <1>n, <1>b, <2>2, <2>3, <2>4, <2>5, <2>6 DEF Effect, Named
  <1>4. ASSUME NEW content \in {"whole", "short"},
               RecvEof(u, content) \/ (content = "whole" /\ RsyncDone(u))
        PROVE  Effect(u)
    <2>1. /\ OnlyOf(u) /\ upload[u].pc = "writing"
          /\ files' = Written(u, content)
          /\ IF mode = "targz"
             THEN upload'[u] = [upload[u] EXCEPT !.pc = "move", !.sent = content]
             ELSE /\ upload'[u] = [upload[u] EXCEPT !.pc = "flip"]
                  /\ FileOf(u) # {}
          /\ UNCHANGED <<now, mode, latest, pass, sender, cold, excused>>
      BY <1>4, DataEnds
    <2>2. /\ upload'[u].pc = IF mode = "targz" THEN "move" ELSE "flip"
          /\ upload'[u].name = upload[u].name
          /\ upload'[u].ino = upload[u].ino /\ upload'[u].outcome = upload[u].outcome
      BY <1>s, <2>1 DEF UploadStates
    <2>3. \A g \in files' \ files :
            \E f \in FileOf(u) : g.name = f.name /\ g.ino = f.ino /\ g.mtime = now
      BY <2>1, WrittenTypes
    <2>4. \A f \in FileOf(u) : f \in files /\ f.name = upload[u].name
      BY FileOfName
    <2>5. \A f \in files : f.name # upload[u].name => f \in files'
      BY <2>1, <2>4 DEF Written
    <2>6. ASSUME upload'[u].pc = "flip"
          PROVE  \E f \in files' : f.name = upload'[u].name
      <3>1. PICK f \in FileOf(u) : TRUE
        BY <2>1, <2>2, <2>6
      <3>2. Left(f, u, content) \in files'
        BY <2>1, <3>1 DEF Written
      <3>3. Left(f, u, content).name = upload[u].name
        BY <3>1, FileOfName DEF Left, File
      <3> QED BY <2>2, <3>2, <3>3
    <2> QED BY <1>n, <1>b, <2>1, <2>2, <2>3, <2>4, <2>5, <2>6 DEF Effect, Named
  <1>5. CASE RecvMove(u)
    <2>1. PICK parts \in SUBSET files, over \in SUBSET files :
            /\ parts = {f \in files : f.part /\ f.name = upload[u].name}
            /\ over = {f \in files : ~f.part /\ f.name = upload[u].name /\ parts # {}}
            /\ files' = (files \ (parts \cup over)) \cup
                          {[f EXCEPT !.part = FALSE] : f \in parts}
            /\ \E outcome \in {"ok", "failed"} :
                upload'[u] = [upload[u] EXCEPT !.pc = "ended", !.outcome = outcome,
                                               !.sent = "writing"]
      BY <1>5, RecvMoveMoves
    <2>2. /\ OnlyOf(u) /\ upload[u].pc = "move"
          /\ UNCHANGED <<now, mode, latest, pass, sender, cold, excused>>
      BY <1>5, RecvMoveMoves
    <2>3. /\ upload'[u].pc = "ended" /\ upload'[u].name = upload[u].name
          /\ upload'[u].ino = upload[u].ino
      BY <1>s, <2>1 DEF UploadStates
    <2>4. \A g \in files' \ files :
            \E f \in parts : g.name = f.name /\ g.ino = f.ino /\ g.mtime = f.mtime
      <3> DEFINE new == {[f EXCEPT !.part = FALSE] : f \in parts}
      <3>1. ASSUME NEW g \in new
            PROVE  \E f \in parts : g.name = f.name /\ g.ino = f.ino /\ g.mtime = f.mtime
        <4>1. PICK f \in parts : g = [f EXCEPT !.part = FALSE]
          OBVIOUS
        <4>2. g.name = f.name /\ g.ino = f.ino /\ g.mtime = f.mtime
          BY <4>1, MovedTypes
        <4> QED BY <4>2
      <3>2. files' = (files \ (parts \cup over)) \cup new
        BY <2>1
      <3> HIDE DEF new
      <3> QED BY <3>1, <3>2
    <2>5. \A f \in parts : f.name = upload[u].name /\ f.name.at <= f.mtime
      BY <2>1 DEF Named
    <2>6. \A f \in files : f.name # upload[u].name => f \in files'
      BY <2>1
    <2> QED BY <1>n, <1>b, <2>2, <2>3, <2>4, <2>5, <2>6 DEF Effect, Named
  <1>6. ASSUME NEW outcome \in {"ok", "failed"}, Ends(u, outcome), Working(u),
               latest' = latest \/ (latest' = upload[u].name /\ upload[u].pc = "flip"),
               UNCHANGED <<now, mode, files, pass, sender, cold, excused>>
        PROVE  Effect(u)
    <2>1. OnlyOf(u) /\ upload'[u] = [upload[u] EXCEPT !.pc = "ended", !.outcome = outcome,
                                                     !.sent = "writing"]
      BY <1>6, EndsMoves
    <2>2. /\ upload'[u].pc = "ended" /\ upload'[u].name = upload[u].name
          /\ upload'[u].ino = upload[u].ino
      BY <1>s, <2>1 DEF UploadStates
    <2> QED BY <1>n, <1>b, <1>6, <2>1, <2>2 DEF Effect, Named, Working
  <1>7. CASE RecvKilled(u) \/ RsyncFails(u)
    BY <1>6, <1>7 DEF RecvKilled, RsyncFails
  <1>8. CASE FlipLatest(u)
    BY <1>6, <1>8 DEF FlipLatest, Flips, Working
  <1>9. CASE RsyncStart(u)
    <2>1. PICK same \in SUBSET files, name \in Name :
            /\ name.at = now
            /\ same = {f \in files : f.name = name}
            /\ files' = (files \ same) \cup Opened(u, name, FALSE, same)
            /\ upload'[u] = [upload[u] EXCEPT !.pc = "writing", !.since = now,
                               !.name = name,
                               !.ino = IF same = {} THEN {u} ELSE {f.ino : f \in same}]
            /\ excused' = IF \E v \in Upload : upload[v].name = name
                          THEN excused \cup {name} ELSE excused
      BY <1>9, RsyncStartMoves
    <2>2. /\ OnlyOf(u) /\ upload[u].pc = "unborn"
          /\ UNCHANGED <<now, mode, latest, pass, sender, cold>>
      BY <1>9, RsyncStartMoves
    <2>3. /\ upload'[u].pc = "writing" /\ upload'[u].name = name
          /\ upload'[u].ino = IF same = {} THEN {u} ELSE {f.ino : f \in same}
          /\ upload'[u].outcome = upload[u].outcome
      BY <1>s, <2>1 DEF UploadStates
    <2>4. \A g \in Opened(u, name, FALSE, same) :
            /\ g.name = name /\ g.mtime = now
            /\ g.ino = u \/ \E f \in same : f.ino = g.ino /\ f.name = g.name
      BY <2>1 DEF Opened
    <2>5. \A f \in same : f.name = name /\ upload[f.ino].name = f.name
      BY <2>1 DEF Named
    <2>6. upload[u].outcome = "none"
      BY <2>2, UnbornTypes
    <2>7. \A f \in files : f.name # upload'[u].name => f \in files'
      BY <2>1, <2>3
    <2>8. \A g \in files' \ files :
            /\ g.name = upload'[u].name /\ g.name.at <= g.mtime
            /\ g.ino = u \/ \E f \in files : f.ino = g.ino /\ f.name = g.name
      <3>1. files' \ files \subseteq Opened(u, name, FALSE, same) /\ same \subseteq files
        BY <2>1
      <3>2. name.at <= now
        BY <1>t, <2>1
      <3> QED BY <2>3, <2>4, <3>1, <3>2
    <2>9. /\ upload'[u].ino # {}
          /\ \A i \in upload'[u].ino : i = u \/ upload[i].name = upload'[u].name
      BY <2>3, <2>5
    <2>10. upload'[u].name \in Name /\ upload'[u].name.at <= now
      BY <1>t, <2>1, <2>3
    <2>11. /\ excused \subseteq excused' /\ upload'[u].name.at = now
           /\ Used(upload'[u].name) => upload'[u].name \in excused'
      BY <2>1, <2>3
    <2> QED BY <2>2, <2>3, <2>6, <2>7, <2>8, <2>9, <2>10, <2>11 DEF Effect
  <1> QED BY <1>1, <1>2, <1>3, <1>4, <1>5, <1>7, <1>8, <1>9 DEF UploadStep

\* A name, once taken, is kept.
LEMMA NamesStay ==
  ASSUME Typed, NEW u \in Upload, Effect(u)
  PROVE  /\ \A v \in Upload : upload[v].pc # "unborn" =>
              upload'[v].name = upload[v].name /\ upload'[v].pc # "unborn"
         /\ \A v \in Upload : upload[v].name \in Name => upload'[v].name = upload[v].name
         /\ \A name \in Name : Used(name) => Used(name)'
  <1>1. \A v \in Upload : upload[v].pc # "unborn" =>
              upload'[v].name = upload[v].name /\ upload'[v].pc # "unborn"
    BY DEF Effect, OnlyOf
  <1>2. \A v \in Upload : upload[v].name \in Name => upload[v].pc # "unborn"
    BY UnbornTypes, NoNameIsNone
  <1>3. \A v \in Upload : upload[v].name \in Name => upload'[v].name = upload[v].name
    BY <1>1, <1>2
  <1>4. \A name \in Name : Used(name) => Used(name)'
    BY <1>3 DEF Used
  <1> QED BY <1>1, <1>3, <1>4

LEMMA NamedInit == Init => Named /\ Apart
  BY ConstantsOK
  DEF Init, Named, Apart, Unborn, IdlePass, NoName, Nothing, Recorded

LEMMA NamedUpload ==
  ASSUME Typed, Named, NEW u \in Upload, Effect(u)
  PROVE  Named'
  <1>1. \A v \in Upload : upload[v].pc # "unborn" => upload'[v].name = upload[v].name
    BY NamesStay
  <1>2. \A v \in Upload : upload[v].name \in Name => upload'[v].name = upload[v].name
    BY NamesStay
  <1>3. \A name \in Name : Used(name) => Used(name)'
    BY NamesStay
  <1>4. \A f \in files : f.name = upload[f.ino].name /\ f.name \in Name /\ f.ino \in Upload
    BY DEF Named, Typed, TypeOK, File
  <1>5. upload'[u].name \in Name
    BY DEF Effect
  <1>6. \A f \in files' : f.name = upload'[f.ino].name /\ f.name.at <= f.mtime
    <2>1. \A f \in files : f.name = upload'[f.ino].name /\ f.name.at <= f.mtime
      BY <1>2, <1>4 DEF Named
    <2>2. \A g \in files' \ files : g.name.at <= g.mtime
      BY DEF Effect
    <2>3. \A g \in files' \ files : g.name = upload'[g.ino].name
      BY <1>2, <1>4 DEF Effect
    <2> QED BY <2>1, <2>2, <2>3
  <1>7. ASSUME NEW v \in Upload
        PROVE  /\ upload'[v].name.at <= now'
               /\ \A i \in upload'[v].ino : upload'[i].name = upload'[v].name
               /\ upload'[v].pc \in {"writing", "move", "flip"} => upload'[v].ino # {}
               /\ upload'[v].outcome = "ok" => upload'[v].pc = "ended"
    <2>1. CASE v = u
      <3>1. upload'[u].ino \subseteq Upload
        BY DEF Effect, OnlyOf, UploadStates
      <3>2. \A i \in upload'[u].ino : upload'[i].name = upload'[u].name
        BY <1>2, <1>5, <3>1 DEF Effect
      <3> QED BY <2>1, <3>2 DEF Effect
    <2>2. CASE v # u
      <3>1. upload'[v] = upload[v] /\ now' = now
        BY <2>2 DEF Effect, OnlyOf
      <3>2. upload[v].ino # {} => upload[v].name \in Name
        BY UnbornTypes, BornTypes
      <3>3. upload[v].ino \subseteq Upload
        BY StateOf DEF UploadStates
      <3>4. \A i \in upload[v].ino : upload'[i].name = upload[v].name
        BY <1>2, <3>2, <3>3 DEF Named
      <3> QED BY <3>1, <3>4 DEF Named
    <2> QED BY <2>1, <2>2
  <1>8. /\ \A c \in cold' : Used(c.name)'
        /\ sender' # NoCopy => Used(sender.name)'
    <2>1. /\ \A c \in cold : c.name \in Name
          /\ sender # NoCopy => sender.name \in Name
      BY DEF Typed, TypeOK, SenderStates
    <2>2. cold' = cold /\ sender' = sender
      BY DEF Effect
    <2>3. \A c \in cold : Used(c.name)'
      BY <1>3, <2>1 DEF Named
    <2>4. sender # NoCopy => Used(sender.name)'
      BY <1>3, <2>1, <2>2 DEF Named
    <2> QED BY <2>2, <2>3, <2>4
  <1>9. pass' = pass /\ cold' = cold
    BY DEF Effect
  <1> QED BY <1>6, <1>7, <1>8, <1>9 DEF Named, Recorded, Used

LEMMA NamedOthers ==
  ASSUME Typed, Named, Tick \/ PassStep \/ SenderStep
  PROVE  Named'
  <1>1. CASE Tick
    <2>1. now' = now + 1 /\ now \in Nat
      BY <1>1, NowIsTime DEF Tick, Typed, TypeOK
    <2>2. \A u \in Upload : upload[u].name.at \in Nat
      <3>1. \A name \in Name \cup {NoName} : name.at \in Nat
        BY DEF Name, NoName, Nothing, Time
      <3> QED BY <3>1 DEF Typed, TypeOK
    <2>3. \A u \in Upload : upload[u].name.at <= now'
      BY <2>1, <2>2 DEF Named
    <2>4. UNCHANGED <<mode, files, latest, upload, pass, sender, cold, excused>>
      BY <1>1 DEF Tick
    <2> QED BY <2>3, <2>4 DEF Named, Recorded, Used
  <1>2. CASE PassStep
    <2>1. /\ files' \subseteq files
          /\ UNCHANGED <<now, mode, latest, upload, sender, cold, excused>>
      BY <1>2, PassMoves
    <2>2. /\ \A s \in pass'.snaps : s.name.at <= s.at
          /\ pass'.offsited \subseteq Recorded
      <3>1. CASE PassList
        <4>1. \A f \in files : f.name.at <= CreatedAt(f)
          <5>1. \A f \in files : f.name.at \in Nat /\ f.name.at <= f.mtime
            BY DEF Typed, TypeOK, File, Name, Time, Named
          <5> QED BY <5>1 DEF CreatedAt
        <4>2. \A s \in Listing : s.name.at <= s.at
          BY <4>1 DEF Listing
        <4>3. pass'.snaps = Listing /\ pass'.offsited = Recorded
          BY <3>1 DEF PassList
        <4> QED BY <4>2, <4>3
      <3>2. CASE PassParts
        BY <3>2 DEF PassParts, Typed, PassStates, Named
      <3>3. CASE PassDelete
        <4>1. pass'.snaps \subseteq pass.snaps /\ pass'.offsited = pass.offsited
          BY <3>3 DEF PassDelete, Typed, PassStates
        <4> QED BY <4>1 DEF Named
      <3>4. CASE PassEnd
        BY <3>4 DEF PassEnd, IdlePass
      <3> QED BY <1>2, <3>1, <3>2, <3>3, <3>4 DEF PassStep
    <2> QED BY <2>1, <2>2 DEF Named, Recorded, Used
  <1>3. CASE SenderStep
    <2>1. UNCHANGED <<now, mode, files, latest, upload, pass>>
      BY <1>3, SenderMoves
    <2>2. /\ \A c \in cold' : Used(c.name)
          /\ sender' # NoCopy => Used(sender'.name)
          /\ cold \subseteq cold'
      <3>1. CASE SenderTake
        <4>1. PICK f \in files : sender' = [name |-> f.name, content |-> f.content]
          BY <3>1 DEF SenderTake
        <4>2. Used(f.name)
          BY DEF Typed, TypeOK, File, Named, Used
        <4> QED BY <3>1, <4>1, <4>2 DEF SenderTake, Named
      <3>2. CASE SenderRecord
        BY <3>2 DEF SenderRecord, Named
      <3>3. CASE SenderFails
        BY <3>3 DEF SenderFails, Named
      <3> QED BY <1>3, <3>1, <3>2, <3>3 DEF SenderStep
    <2>3. Recorded \subseteq Recorded'
      BY <2>2 DEF Recorded
    <2> QED BY <2>1, <2>2, <2>3 DEF Named, Used
  <1> QED BY <1>1, <1>2, <1>3

LEMMA ApartNext ==
  ASSUME Typed, Named, Apart, [Next]_vars
  PROVE  Apart'
  <1>1. ASSUME NEW u \in Upload, UploadStep(u) PROVE Apart'
    <2>1. Effect(u)
      BY <1>1, UploadEffect
    <2>2. \A v \in Upload \ {u} : upload'[v] = upload[v]
      BY <2>1 DEF Effect, OnlyOf
    <2>3. excused \subseteq excused'
      BY <2>1 DEF Effect
    <2> SUFFICES ASSUME NEW v \in Upload, NEW w \in Upload, v # w,
                        upload'[v].pc # "unborn", upload'[w].name = upload'[v].name
                 PROVE  upload'[v].name \in excused'
      BY DEF Apart
    <2>4. upload'[u].pc # "unborn" /\ upload'[u].name \in Name
      BY <2>1 DEF Effect
    <2>5. CASE upload[u].pc = "unborn" /\ u \in {v, w}
      BY <2>1, <2>2, <2>5 DEF Effect, Used
    <2>6. CASE upload[u].pc # "unborn" \/ u \notin {v, w}
      <3>1. upload'[v].name = upload[v].name /\ upload'[w].name = upload[w].name
        BY <2>1, <2>2, <2>6 DEF Effect
      <3>2. upload[v].pc # "unborn"
        BY <2>2, <2>6
      <3> QED BY <2>3, <3>1, <3>2 DEF Apart
    <2> QED BY <2>5, <2>6
  <1>2. CASE Tick \/ PassStep \/ SenderStep
    <2>1. upload' = upload /\ excused \subseteq excused'
      BY <1>2, PassMoves DEF Tick, SenderStep, SenderTake, SenderRecord, SenderFails
    <2> QED BY <2>1 DEF Apart
  <1>3. CASE UNCHANGED vars
    BY <1>3 DEF vars, Apart
  <1> QED BY <1>1, <1>2, <1>3 DEF Next

LEMMA NamedNext ==
  ASSUME Typed, Named, [Next]_vars
  PROVE  Named'
  <1>1. ASSUME NEW u \in Upload, UploadStep(u) PROVE Named'
    BY <1>1, UploadEffect, NamedUpload
  <1>2. CASE Tick \/ PassStep \/ SenderStep
    BY <1>2, NamedOthers
  <1>3. CASE UNCHANGED vars
    BY <1>3 DEF vars, Named, Recorded, Used
  <1> QED BY <1>1, <1>2, <1>3 DEF Next

Copies(name) == {c \in cold \cup {sender} : c.name = name}

\* What was reported to the client, or is about to be linked, is complete
\* wherever it is listed.
Settled(name) ==
    /\ \A f \in files : f.name = name /\ Listed(f) => Whole(f)
    /\ \A c \in Copies(name) : Whole(c)
    /\ Kept(name)

\* Until the move nothing of an upload is taken for a snapshot, or it is known
\* that it is being written.
Hidden(name) ==
    /\ Copies(name) = {}
    /\ \A f \in files : f.name = name =>
        f.part \/ (mode = "rsync" /\ f.content = "writing")

Own(u) ==
    /\ \A f \in files : f.name = upload[u].name => f.by = {u}
    /\ upload[u].pc \in {"named", "writing", "move"} => Hidden(upload[u].name)
    /\ upload[u].pc = "move" =>
        \A f \in files : f.name = upload[u].name => f.content = upload[u].sent
    /\ upload[u].pc = "flip" \/ upload[u].outcome = "ok" => Settled(upload[u].name)

Owned ==
    \A u \in Upload :
        upload[u].pc # "unborn" /\ upload[u].name \notin excused => Own(u)

\* The file of an upload whose name is its own.
LEMMA OwnFiles ==
  ASSUME Typed, Named, Apart, NEW u \in Upload,
         upload[u].pc # "unborn", upload[u].name \notin excused
  PROVE  /\ \A f \in files : f.name = upload[u].name => f.ino = u
         /\ upload[u].pc \in {"writing", "move", "flip"} =>
              FileOf(u) = {f \in files : f.name = upload[u].name}
  <1>1. \A f \in files : f.name = upload[u].name => f.ino = u
    BY DEF Typed, TypeOK, File, Named, Apart
  <1>2. ASSUME upload[u].pc \in {"writing", "move", "flip"}
        PROVE  upload[u].ino = {u}
    <2>1. upload[u].ino \subseteq Upload /\ upload[u].ino # {}
      BY <1>2, StateOf DEF Named, UploadStates
    <2>2. \A i \in upload[u].ino : upload[i].name = upload[u].name
      BY DEF Named
    <2>3. \A i \in upload[u].ino : i = u
      BY <2>1, <2>2 DEF Apart
    <2> QED BY <2>1, <2>3
  <1>3. \A f \in FileOf(u) : f \in files /\ f.name = upload[u].name
    BY FileOfName
  <1> QED BY <1>1, <1>2, <1>3 DEF FileOf

\* What the others do leaves an upload its own.
LEMMA OwnStays ==
  ASSUME NEW u \in Upload, Own(u), upload'[u] = upload[u], mode' = mode,
         \A f \in files' : f.name = upload[u].name => f \in files,
         Hidden(upload[u].name) => \A c \in cold' \cup {sender'} : c.name # upload[u].name,
         Settled(upload[u].name) => \A c \in cold' \cup {sender'} :
            c.name = upload[u].name => Whole(c),
         Settled(upload[u].name) => Kept(upload[u].name)'
  PROVE  Own(u)'
  <1> DEFINE n == upload[u].name
  <1>1. n' = n
    OBVIOUS
  <1>2. /\ Hidden(n) => Copies(n)' = {}
        /\ Settled(n) => \A c \in Copies(n)' : Whole(c)
    BY <1>1 DEF Copies
  <1>3. Hidden(n) => Hidden(n)'
    BY <1>1, <1>2 DEF Hidden
  <1>4. Settled(n) => Settled(n)'
    BY <1>1, <1>2 DEF Settled, Listed, Whole
  <1> QED BY <1>1, <1>3, <1>4 DEF Own

\* A step of one upload leaves the files of another alone.
LEMMA OthersFiles ==
  ASSUME Apart, NEW u \in Upload, NEW v \in Upload, u # v,
         Effect(v), upload[u].pc # "unborn", upload[u].name \notin excused'
  PROVE  /\ upload'[u] = upload[u]
         /\ \A f \in files' : f.name = upload[u].name => f \in files
         /\ \A f \in files : f.name = upload[u].name => f \in files'
  <1>1. upload'[u] = upload[u] /\ excused \subseteq excused'
    BY DEF Effect, OnlyOf
  <1>2. upload'[v].name # upload[u].name
    <2>1. CASE upload[v].pc = "unborn"
      BY <1>1, <2>1 DEF Effect, Used
    <2>2. CASE upload[v].pc # "unborn"
      BY <1>1, <2>2 DEF Effect, Apart
    <2> QED BY <2>1, <2>2
  <1> QED BY <1>1, <1>2 DEF Effect

LEMMA OwnOthers ==
  ASSUME Typed, Named, Apart, NEW u \in Upload, NEW v \in Upload, u # v,
         Own(u), Effect(v), upload[u].pc # "unborn", upload[u].name \notin excused'
  PROVE  Own(u)'
  <1>1. mode' = mode /\ now' = now /\ cold' = cold /\ sender' = sender
    BY DEF Effect
  <1>3. /\ upload'[u] = upload[u]
        /\ \A f \in files' : f.name = upload[u].name => f \in files
        /\ \A f \in files : f.name = upload[u].name => f \in files'
    BY OthersFiles
  <1>4. Kept(upload[u].name) => Kept(upload[u].name)'
    BY <1>1, <1>3 DEF Kept, Listed, Whole
  <1>5. /\ Hidden(upload[u].name) => \A c \in cold' \cup {sender'} : c.name # upload[u].name
        /\ Settled(upload[u].name) => \A c \in cold' \cup {sender'} :
             c.name = upload[u].name => Whole(c)
    BY <1>1 DEF Hidden, Settled, Copies
  <1> QED BY <1>1, <1>3, <1>4, <1>5, OwnStays DEF Settled

\* No file and no copy has a name that no upload has taken.
LEMMA FreshName ==
  ASSUME Typed, Named, NEW name \in Name, ~Used(name)
  PROVE  Copies(name) = {} /\ \A f \in files : f.name # name
  <1>1. NoCopy.name # name
    BY NoNameIsNone DEF NoCopy
  <1>2. \A f \in files : f.ino \in Upload
    BY DEF Typed, TypeOK, File
  <1> QED BY <1>1, <1>2 DEF Copies, Named, Used

\* Each step of an upload establishes what the next one relies on.
LEMMA OwnSelf ==
  ASSUME Typed, Named, Apart, Owned, NEW u \in Upload, UploadStep(u),
         upload'[u].name \notin excused'
  PROVE  Own(u)'
  <1> DEFINE n == upload[u].name
  <1>e. Effect(u)
    BY UploadEffect
  <1>s. upload[u] \in UploadStates
    BY StateOf
  <1>x. excused \subseteq excused'
    BY <1>e DEF Effect
  <1>o. ASSUME upload[u].pc # "unborn"
        PROVE  /\ upload'[u].name = n /\ Own(u) /\ n \notin excused
               /\ \A f \in files : f.name = n => f.ino = u
               /\ upload[u].pc \in {"writing", "move", "flip"} =>
                    FileOf(u) = {f \in files : f.name = n}
    <2>1. upload'[u].name = n
      BY <1>e, <1>o DEF Effect
    <2>2. n \notin excused
      BY <1>x, <2>1
    <2> QED BY <1>o, <2>1, <2>2, OwnFiles DEF Owned
  <1>f. ASSUME upload[u].pc = "unborn"
        PROVE  /\ Copies(upload'[u].name) = {}
               /\ \A f \in files : f.name # upload'[u].name
    <2>1. upload'[u].name \in Name /\ ~Used(upload'[u].name)
      BY <1>e, <1>f DEF Effect
    <2> QED BY <2>1, FreshName
  <1>1. CASE RecvName(u)
    <2>1. PICK name \in Name :
            upload'[u] = [upload[u] EXCEPT !.pc = "named", !.since = now,
                                           !.name = name]
      BY <1>1, RecvNameMoves
    <2>2. /\ upload[u].pc = "unborn"
          /\ UNCHANGED <<now, mode, files, latest, pass, sender, cold>>
      BY <1>1, RecvNameMoves
    <2>3. upload'[u].pc = "named" /\ upload'[u].outcome # "ok"
      BY <1>s, <2>1, <2>2, UnbornTypes DEF UploadStates
    <2>4. Hidden(upload[u].name)'
      BY <1>f, <2>2 DEF Hidden, Copies
    <2> QED BY <1>f, <2>2, <2>3, <2>4 DEF Own
  <1>2. CASE RecvOpen(u)
    <2>1. PICK same \in SUBSET files :
            /\ same = {f \in files : f.part /\ f.name = upload[u].name}
            /\ files' = (files \ same) \cup Opened(u, upload[u].name, TRUE, same)
            /\ upload'[u] = [upload[u] EXCEPT !.pc = "writing",
                               !.ino = IF same = {} THEN {u} ELSE {f.ino : f \in same}]
      BY <1>2, RecvOpenMoves
    <2>2. /\ upload[u].pc = "named"
          /\ UNCHANGED <<now, mode, latest, pass, sender, cold, excused>>
      BY <1>2, RecvOpenMoves
    <2>3. upload'[u].pc = "writing" /\ upload'[u].outcome # "ok" /\ upload'[u].name = n
      BY <1>s, <2>1, <2>2 DEF UploadStates, Named
    <2>4. Own(u) /\ Hidden(n)
      BY <1>o, <2>2 DEF Own
    <2>5. \A g \in Opened(u, n, TRUE, same) : g.part /\ g.by = {u}
      <3>1. \A f \in same : f.by = {u}
        BY <2>1, <2>4 DEF Own
      <3>2. (UNION {f.by : f \in same}) \cup {u} = {u}
        BY <3>1
      <3> QED BY <3>2 DEF Opened
    <2>6. \A f \in files' : f.name = n =>
            f.by = {u} /\ (f.part \/ (mode = "rsync" /\ f.content = "writing"))
      BY <2>1, <2>4, <2>5 DEF Own, Hidden
    <2>7. Hidden(upload[u].name)'
      BY <2>2, <2>3, <2>4, <2>6 DEF Hidden, Copies
    <2> QED BY <2>3, <2>6, <2>7 DEF Own
  <1>3. CASE RecvWrite(u)
    <2>1. PICK f \in FileOf(u) : files' = (files \ {f}) \cup {[f EXCEPT !.mtime = now]}
      BY <1>3 DEF RecvWrite
    <2>2. /\ UNCHANGED <<now, mode, latest, upload, pass, sender, cold, excused>>
          /\ upload[u].pc = "writing" /\ mode = "targz"
      BY <1>3 DEF RecvWrite
    <2>3. f \in files /\ f \in File /\ f.name = n
      BY <2>1, FileOfName
    <2> DEFINE g == [f EXCEPT !.mtime = now]
    <2>4. g.by = f.by /\ (g.part <=> f.part)
      BY <2>3 DEF File
    <2>5. Own(u) /\ Hidden(n)
      BY <1>o, <2>2 DEF Own
    <2>6. f.by = {u} /\ f.part
      BY <2>2, <2>3, <2>5 DEF Own, Hidden
    <2>7. files' = (files \ {f}) \cup {g}
      BY <2>1
    <2> HIDE DEF g
    <2>8. \A h \in files' : h.name = n => h.by = {u} /\ h.part
      BY <2>2, <2>4, <2>5, <2>6, <2>7 DEF Own, Hidden
    <2>9. upload[u].outcome # "ok"
      BY <2>2 DEF Named
    <2>10. Hidden(n)'
      BY <2>2, <2>5, <2>8 DEF Hidden, Copies
    <2> QED BY <2>2, <2>8, <2>9, <2>10 DEF Own
  <1>4. ASSUME NEW content \in {"whole", "short"},
               RecvEof(u, content) \/ (content = "whole" /\ RsyncDone(u))
        PROVE  Own(u)'
    <2>1. /\ upload[u].pc = "writing"
          /\ files' = Written(u, content)
          /\ IF mode = "targz"
             THEN upload'[u] = [upload[u] EXCEPT !.pc = "move", !.sent = content]
             ELSE /\ upload'[u] = [upload[u] EXCEPT !.pc = "flip"]
                  /\ FileOf(u) # {} /\ content = "whole"
          /\ UNCHANGED <<now, mode, latest, pass, sender, cold, excused>>
      BY <1>4, DataEnds
    <2>2. Own(u) /\ Hidden(n) /\ FileOf(u) = {f \in files : f.name = n}
          /\ upload'[u].name = n
      BY <1>o, <2>1 DEF Own
    <2>3. \A f \in FileOf(u) : f.by = {u}
      BY <2>2 DEF Own
    <2>4. \A g \in files' : g.name = n =>
            \E f \in FileOf(u) : /\ g.by = {u} /\ g.content = content
                                 /\ (g.part <=> f.part)
      BY <2>1, <2>2, <2>3, WrittenTypes
    <2>5. /\ upload'[u].pc = IF mode = "targz" THEN "move" ELSE "flip"
          /\ upload'[u].outcome # "ok"
          /\ mode = "targz" => upload'[u].sent = content
      BY <1>s, <2>1 DEF UploadStates, Named
    <2>6. CASE mode = "targz"
      <3>1. \A g \in files' : g.name = n => g.part
        BY <2>2, <2>4, <2>6 DEF Hidden
      <3>2. Hidden(upload[u].name)'
        BY <2>1, <2>2, <3>1 DEF Hidden, Copies
      <3> QED BY <2>2, <2>4, <2>5, <2>6, <3>2 DEF Own
    <2>7. CASE mode # "targz"
      <3>1. content = "whole" /\ mode = "rsync" /\ mode' = mode
        BY <2>1, <2>7 DEF Typed, TypeOK
      <3>2. PICK f \in FileOf(u) : TRUE
        BY <2>1, <2>7
      <3>3. Left(f, u, content) \in files'
        BY <2>1, <3>2 DEF Written
      <3>4. Left(f, u, content).name = n
        BY <2>2, <3>2 DEF Left, Typed, TypeOK, File
      <3>5. \A g \in files' : ~g.part
        <4>1. \A g \in FileOf(u) : ~g.part
          BY <2>2, <3>1 DEF Typed
        <4>2. \A g \in files' : g \in files \/ \E h \in FileOf(u) : g.part <=> h.part
          BY <2>1, WrittenTypes
        <4> QED BY <3>1, <4>1, <4>2 DEF Typed
      <3>6. Kept(n)'
        BY <2>2, <2>4, <3>1, <3>3, <3>4, <3>5 DEF Kept, Listed, Whole
      <3>7. \A g \in files' : g.name = n => Whole(g)
        BY <2>4, <3>1 DEF Whole
      <3>8. Copies(n)' = {}
        BY <2>1, <2>2 DEF Hidden, Copies
      <3>9. Settled(upload[u].name)'
        BY <2>2, <3>6, <3>7, <3>8 DEF Settled, Whole
      <3> QED BY <2>2, <2>4, <2>5, <2>7, <3>9 DEF Own
    <2> QED BY <2>6, <2>7
  <1>5. CASE RecvMove(u)
    <2>1. PICK parts \in SUBSET files, over \in SUBSET files :
            /\ parts = {f \in files : f.part /\ f.name = upload[u].name}
            /\ over = {f \in files : ~f.part /\ f.name = upload[u].name /\ parts # {}}
            /\ files' = (files \ (parts \cup over)) \cup
                          {[f EXCEPT !.part = FALSE] : f \in parts}
            /\ \E outcome \in {"ok", "failed"} :
                  /\ outcome = "ok" <=> parts # {} /\ upload[u].sent = "whole"
                  /\ upload'[u] = [upload[u] EXCEPT !.pc = "ended", !.outcome = outcome,
                                                    !.sent = "writing"]
      BY <1>5, RecvMoveMoves
    <2>2. /\ upload[u].pc = "move" /\ mode = "targz"
          /\ UNCHANGED <<now, mode, latest, pass, sender, cold, excused>>
      BY <1>5, RecvMoveMoves
    <2>3. /\ upload'[u].pc = "ended"
          /\ upload'[u].outcome = "ok" => parts # {} /\ upload[u].sent = "whole"
      BY <1>s, <2>1 DEF UploadStates
    <2>4. Own(u) /\ Hidden(n) /\ upload'[u].name = n
      BY <1>o, <2>2 DEF Own
    <2>5. \A f \in files : f.name = n =>
            f.part /\ f.by = {u} /\ f.content = upload[u].sent
      BY <2>2, <2>4 DEF Own, Hidden
    <2>6. \A f \in parts : LET g == [f EXCEPT !.part = FALSE] IN
            /\ g.name = n /\ ~g.part /\ g.by = {u} /\ g.content = upload[u].sent
      BY <2>1, <2>5, MovedTypes
    <2>7. \A g \in files' : g.name = n =>
            ~g.part /\ g.by = {u} /\ g.content = upload[u].sent
      <3>1. \A g \in files' : g.name = n => g \in {[f EXCEPT !.part = FALSE] : f \in parts}
        BY <2>1, <2>5
      <3> QED BY <2>6, <3>1
    <2>8. ASSUME upload'[u].outcome = "ok" PROVE Settled(n)'
      <3>1. PICK f \in parts : TRUE
        BY <2>3, <2>8
      <3>2. [f EXCEPT !.part = FALSE] \in files'
        BY <2>1, <3>1
      <3>3. upload[u].sent = "whole"
        BY <2>3, <2>8
      <3>4. Kept(n)'
        BY <2>4, <2>6, <3>1, <3>2, <3>3 DEF Kept, Listed, Whole
      <3>5. Copies(n)' = {}
        BY <2>2, <2>4 DEF Hidden, Copies
      <3> QED BY <2>4, <2>7, <3>3, <3>4, <3>5 DEF Settled, Whole
    <2> QED BY <2>3, <2>4, <2>7, <2>8 DEF Own
  <1>6. CASE RecvKilled(u) \/ RsyncFails(u)
    <2>1. Working(u) /\ Ends(u, "failed") /\ files' = files
      BY <1>6 DEF RecvKilled, RsyncFails
    <2>2. upload'[u].pc = "ended" /\ upload'[u].outcome = "failed" /\ upload'[u].name = n
      <3>1. upload'[u] = [upload[u] EXCEPT !.pc = "ended", !.outcome = "failed",
                                           !.sent = "writing"]
        BY <2>1, EndsMoves
      <3> QED BY <1>s, <3>1 DEF UploadStates
    <2>3. Own(u)
      BY <1>o, <2>1 DEF Working
    <2> QED BY <2>1, <2>2, <2>3 DEF Own
  <1>7. CASE FlipLatest(u)
    <2>1. /\ upload[u].pc = "flip" /\ Ends(u, "ok")
          /\ UNCHANGED <<now, mode, files, pass, sender, cold, excused>>
      BY <1>7 DEF FlipLatest, Flips
    <2>2. upload'[u].pc = "ended" /\ upload'[u].name = n
      <3>1. upload'[u] = [upload[u] EXCEPT !.pc = "ended", !.outcome = "ok",
                                           !.sent = "writing"]
        BY <2>1, EndsMoves
      <3> QED BY <1>s, <3>1 DEF UploadStates
    <2>3. Own(u) /\ Settled(n)
      BY <1>o, <2>1 DEF Own
    <2>4. Settled(upload[u].name)'
      BY <2>1, <2>2, <2>3 DEF Settled, Copies, Kept, Listed, Whole
    <2> QED BY <2>1, <2>2, <2>3, <2>4 DEF Own
  <1>8. CASE RsyncStart(u)
    <2>1. PICK same \in SUBSET files, name \in Name :
            /\ same = {f \in files : f.name = name}
            /\ files' = (files \ same) \cup Opened(u, name, FALSE, same)
            /\ upload'[u] = [upload[u] EXCEPT !.pc = "writing", !.since = now,
                               !.name = name,
                               !.ino = IF same = {} THEN {u} ELSE {f.ino : f \in same}]
      BY <1>8, RsyncStartMoves
    <2>2. /\ upload[u].pc = "unborn" /\ mode = "rsync"
          /\ UNCHANGED <<now, mode, latest, pass, sender, cold>>
      BY <1>8, RsyncStartMoves
    <2>3. upload'[u].pc = "writing" /\ upload'[u].outcome # "ok" /\ upload'[u].name = name
      BY <1>s, <2>1, <2>2, UnbornTypes DEF UploadStates
    <2>4. same = {} /\ Copies(name) = {}
      BY <1>f, <2>1, <2>2, <2>3
    <2>5. \A g \in Opened(u, name, FALSE, same) : g.by = {u} /\ g.content = "writing"
      BY <2>4 DEF Opened
    <2>6. \A g \in files' : g.name = name => g.by = {u} /\ g.content = "writing"
      BY <2>1, <2>4, <2>5
    <2>7. Hidden(upload[u].name)'
      BY <2>2, <2>3, <2>4, <2>6 DEF Hidden, Copies
    <2> QED BY <2>3, <2>6, <2>7 DEF Own
  <1> QED BY <1>1, <1>2, <1>3, <1>4, <1>5, <1>6, <1>7, <1>8 DEF UploadStep

\* pruneHot removes what is offsite or past the horizon.
LEMMA KeptByPass ==
  ASSUME Typed, Named, PassStep, NEW name \in Name, Settled(name)
  PROVE  Kept(name)'
  <1>1. /\ files' \subseteq files
        /\ UNCHANGED <<now, mode, latest, upload, sender, cold, excused>>
    BY PassMoves
  <1>2. CASE PassList \/ PassEnd
    BY <1>1, <1>2 DEF PassList, PassEnd, Settled, Kept, Listed, Whole
  <1>3. CASE PassParts
    BY <1>1, <1>3 DEF PassParts, Orphan, Settled, Kept, Listed, Whole
  <1>4. CASE PassDelete
    <2>1. PICK s \in pass.snaps :
            /\ Expired(s)
            /\ files' = IF Refuses(s.name) THEN files
                        ELSE {f \in files : f.part \/ f.name # s.name}
      BY <1>4 DEF PassDelete
    <2>2. CASE Refuses(s.name) \/ s.name # name
      BY <1>1, <2>1, <2>2 DEF Settled, Kept, Listed, Whole
    <2>3. CASE s.name = name /\ Offsite
      <3>1. name \in Recorded
        BY <2>1, <2>3 DEF Expired, Named
      <3>2. PICK c \in cold : c.name = name
        BY <3>1 DEF Recorded
      <3>3. Whole(c)
        BY <3>2 DEF Settled, Copies
      <3> QED BY <1>1, <2>3, <3>2, <3>3 DEF Kept, Whole
    <2>4. CASE s.name = name /\ ~Offsite
      <3>1. s.at + Retention < now /\ name.at <= s.at
        BY <2>1, <2>4 DEF Expired, Named
      <3>2. s.at \in Nat /\ now \in Nat /\ name.at \in Nat /\ Retention \in Nat
        BY ConstantsOK DEF Typed, TypeOK, PassStates, Name, Time, Assumptions
      <3>3. name.at + Retention < now
        BY <3>1, <3>2
      <3> QED BY <1>1, <2>4, <3>3 DEF Kept
    <2> QED BY <2>2, <2>3, <2>4
  <1> QED BY <1>2, <1>3, <1>4 DEF PassStep

LEMMA OwnByTheWay ==
  ASSUME Typed, Named, NEW u \in Upload, upload[u].pc # "unborn", Own(u),
         upload[u].name \notin excused',
         Tick \/ PassStep \/ SenderStep
  PROVE  Own(u)'
  <1> DEFINE n == upload[u].name
  <1>0. n \in Name
    BY BornTypes
  <1>c. /\ Hidden(n) => \A c \in cold \cup {sender} : c.name # n
        /\ Settled(n) => \A c \in cold \cup {sender} : c.name = n => Whole(c)
    BY DEF Hidden, Settled, Copies
  <1>1. CASE Tick
    <2>1. /\ now' = now + 1
          /\ UNCHANGED <<mode, files, latest, upload, pass, sender, cold, excused>>
      BY <1>1 DEF Tick
    <2>2. now \in Nat /\ n.at \in Nat /\ Retention \in Nat
      BY <1>0, NowIsTime, ConstantsOK DEF Typed, TypeOK, Name, Time, Assumptions
    <2>3. Kept(n) => Kept(n)'
      BY <2>1, <2>2 DEF Kept, Listed, Whole
    <2> QED BY <1>c, <2>1, <2>3, OwnStays DEF Settled
  <1>2. CASE PassStep
    <2>1. /\ files' \subseteq files
          /\ UNCHANGED <<now, mode, latest, upload, sender, cold, excused>>
      BY <1>2, PassMoves
    <2>2. ASSUME NEW name \in Name, name = n, Settled(name) PROVE Kept(name)'
      BY <1>2, <2>2, KeptByPass
    <2>3. Settled(n) => Kept(n)'
      BY <1>0, <2>1, <2>2 DEF Kept
    <2> QED BY <1>c, <2>1, <2>3, OwnStays
  <1>3. CASE SenderStep
    <2>1. UNCHANGED <<now, mode, files, latest, upload, pass>>
      BY <1>3, SenderMoves
    <2>2. NoCopy.name # n
      BY <1>0, NoNameIsNone DEF NoCopy
    <2>3. /\ Hidden(n) => \A c \in cold' \cup {sender'} : c.name # n
          /\ Settled(n) => \A c \in cold' \cup {sender'} : c.name = n => Whole(c)
      <3>1. CASE SenderTake
        <4>1. PICK f \in files :
                /\ Listed(f)
                /\ sender' = [name |-> f.name, content |-> f.content]
                /\ excused' = IF mode = "rsync" /\ f.content = "writing"
                              THEN excused \cup {f.name} ELSE excused
          BY <3>1 DEF SenderTake
        <4>2. Hidden(n) => f.name # n
          BY <4>1 DEF Hidden, Listed
        <4>3. Settled(n) /\ f.name = n => f.content = "whole"
          BY <4>1 DEF Settled, Whole
        <4>4. sender'.name = f.name /\ sender'.content = f.content /\ cold' = cold
          BY <3>1, <4>1 DEF SenderTake
        <4> QED BY <1>c, <4>2, <4>3, <4>4 DEF Whole
      <3>2. CASE SenderRecord
        BY <1>c, <2>2, <3>2 DEF SenderRecord
      <3>3. CASE SenderFails
        BY <1>c, <2>2, <3>3 DEF SenderFails
      <3> QED BY <1>3, <3>1, <3>2, <3>3 DEF SenderStep
    <2>4. cold \subseteq cold'
      BY <1>3 DEF SenderStep, SenderTake, SenderRecord, SenderFails
    <2>5. Kept(n) => Kept(n)'
      BY <2>1, <2>4 DEF Kept, Listed, Whole
    <2> QED BY <2>1, <2>3, <2>5, OwnStays DEF Settled
  <1> QED BY <1>1, <1>2, <1>3

LEMMA OwnedNext ==
  ASSUME Typed, Named, Apart, Owned, [Next]_vars
  PROVE  Owned'
  <1> SUFFICES ASSUME NEW u \in Upload, upload'[u].pc # "unborn",
                      upload'[u].name \notin excused'
               PROVE  Own(u)'
    BY DEF Owned
  <1>1. ASSUME NEW v \in Upload, UploadStep(v) PROVE Own(u)'
    <2>1. Effect(v)
      BY <1>1, UploadEffect
    <2>2. CASE u = v
      BY <1>1, <2>2, OwnSelf
    <2>3. CASE u # v
      <3>1. upload'[u] = upload[u] /\ excused \subseteq excused'
        BY <2>1, <2>3 DEF Effect, OnlyOf
      <3>2. Own(u)
        BY <3>1 DEF Owned
      <3> QED BY <2>1, <2>3, <3>1, <3>2, OwnOthers
    <2> QED BY <2>2, <2>3
  <1>2. CASE Tick \/ PassStep \/ SenderStep
    <2>1. upload' = upload /\ excused \subseteq excused'
      BY <1>2, PassMoves DEF Tick, SenderStep, SenderTake, SenderRecord, SenderFails
    <2>2. Own(u)
      BY <2>1 DEF Owned
    <2> QED BY <1>2, <2>1, <2>2, OwnByTheWay
  <1>3. CASE UNCHANGED vars
    BY <1>3 DEF vars, Owned, Own, Hidden, Settled, Copies, Kept, Listed, Whole
  <1> QED BY <1>1, <1>2, <1>3 DEF Next

LEMMA OwnedAlways == Spec => [](Typed /\ Named /\ Apart /\ Owned)
  <1>1. Init => Owned
    BY DEF Init, Owned, Unborn
  <1> DEFINE Inv == Typed /\ Named /\ Apart /\ Owned
  <1>2. Init => Inv
    BY <1>1, TypedInit, NamedInit
  <1>3. Inv /\ [Next]_vars => Inv'
    BY TypedNext, NamedNext, ApartNext, OwnedNext
  <1> QED BY <1>2, <1>3, PTL DEF Spec

\* What a client was told it has backed up is there, all of it, in the
\* directory or offsite, until it is past the horizon: whatever the other
\* uploads, the lifecycle worker and the uploader do meanwhile.
THEOREM OkIsKept == Spec => []OkMeansKept
  <1>1. Typed /\ Owned => OkMeansKept
    <2> SUFFICES ASSUME Typed, Owned, NEW u \in Upload, upload[u].outcome = "ok",
                        upload[u].name \notin excused
                 PROVE  Kept(upload[u].name)
      BY DEF OkMeansKept
    <2>1. upload[u].pc # "unborn"
      BY UnbornTypes
    <2> QED BY <2>1 DEF Owned, Own, Settled
  <1> QED BY OwnedAlways, <1>1, PTL

-----------------------------------------------------------------------------
(* The base of the next transfer.                                          *)

Present(name) == \E f \in files : f.name = name /\ Whole(f)

\* Directories are judged by the time in their names, and those that are
\* being written, or whose transfer has ended, are younger than the horizon.
Young ==
    /\ \A u \in Upload : Working(u) => now <= upload[u].name.at + MaxUpload
    /\ mode = "rsync" => \A s \in pass.snaps : s.at = s.name.at

Linked ==
    /\ \A u \in Upload :
        upload[u].pc = "flip" /\ upload[u].name \notin excused => Present(upload[u].name)
    /\ latest # NoName /\ latest \notin excused =>
        /\ Present(latest)
        /\ \E u \in Upload : upload[u].pc = "ended" /\ upload[u].name = latest

LEMMA YoungNext ==
  ASSUME Typed, Named, Young, [Next]_vars
  PROVE  Young'
  <1>0. now \in Nat /\ MaxUpload \in Nat
    BY NowIsTime, ConstantsOK DEF Typed, TypeOK, Assumptions
  <1>1. ASSUME NEW u \in Upload, UploadStep(u) PROVE Young'
    <2>1. Effect(u)
      BY <1>1, UploadEffect
    <2>2. ASSUME NEW v \in Upload, Working(v)' PROVE now' <= upload'[v].name.at + MaxUpload
      <3>1. CASE v = u /\ upload[u].pc = "unborn"
        <4>1. upload'[v].name.at = now /\ now' = now
          BY <2>1, <3>1 DEF Effect
        <4> QED BY <1>0, <4>1
      <3>2. CASE v # u \/ upload[u].pc # "unborn"
        <4>1. upload'[v].name = upload[v].name /\ now' = now /\ Working(v)
          BY <2>1, <2>2, <3>2 DEF Effect, OnlyOf, Working
        <4> QED BY <4>1 DEF Young
      <3> QED BY <3>1, <3>2
    <2>3. pass' = pass /\ mode' = mode
      BY <2>1 DEF Effect
    <2> QED BY <2>2, <2>3 DEF Young
  <1>2. CASE Tick
    <2>1. /\ now' = now + 1
          /\ \A u \in Upload : Working(u) => now < upload[u].since + MaxUpload
          /\ UNCHANGED <<mode, files, latest, upload, pass, sender, cold, excused>>
      BY <1>2 DEF Tick
    <2>2. \A u \in Upload : Working(u) =>
            upload[u].since = upload[u].name.at /\ upload[u].since \in Nat
      BY BornTypes, StateOf DEF Working, UploadStates
    <2>3. \A u \in Upload : Working(u) => now' <= upload[u].name.at + MaxUpload
      BY <1>0, <2>1, <2>2
    <2> QED BY <2>1, <2>3 DEF Young, Working
  <1>3. CASE PassStep
    <2>1. UNCHANGED <<now, mode, latest, upload, sender, cold, excused>>
      BY <1>3, PassMoves
    <2>2. mode = "rsync" => \A s \in pass'.snaps : s.at = s.name.at
      <3>1. CASE PassList
        <4>1. mode = "rsync" => \A s \in Listing : s.at = s.name.at
          BY DEF Listing, CreatedAt
        <4> QED BY <3>1, <4>1 DEF PassList
      <3>2. CASE PassParts
        BY <3>2 DEF PassParts, Typed, PassStates, Young
      <3>3. CASE PassDelete
        <4>1. pass'.snaps \subseteq pass.snaps
          BY <3>3 DEF PassDelete, Typed, PassStates
        <4> QED BY <4>1 DEF Young
      <3>4. CASE PassEnd
        BY <3>4 DEF PassEnd, IdlePass
      <3> QED BY <1>3, <3>1, <3>2, <3>3, <3>4 DEF PassStep
    <2> QED BY <2>1, <2>2 DEF Young, Working
  <1>4. CASE SenderStep
    BY <1>4, SenderMoves DEF Young, Working
  <1>5. CASE UNCHANGED vars
    BY <1>5 DEF vars, Young, Working
  <1> QED BY <1>1, <1>2, <1>3, <1>4, <1>5 DEF Next

\* DeleteSnapshot refuses the target of the link, and retention passes over
\* what is too young.
LEMMA PresentByPass ==
  ASSUME MaxUpload <= Retention, Typed, Young, PassStep,
         NEW name \in Name, Present(name), mode = "rsync",
         \/ latest = name
         \/ \E u \in Upload : Working(u) /\ upload[u].name = name
  PROVE  Present(name)'
  <1>1. CASE PassList \/ PassEnd
    BY <1>1 DEF PassList, PassEnd, Present, Whole
  <1>2. CASE PassParts
    BY <1>2 DEF PassParts, Orphan, Present, Whole, Typed
  <1>3. CASE PassDelete
    <2>1. PICK s \in pass.snaps :
            /\ Expired(s)
            /\ files' = IF Refuses(s.name) THEN files
                        ELSE {f \in files : f.part \/ f.name # s.name}
      BY <1>3 DEF PassDelete
    <2>2. s.name = name => Refuses(s.name)
      <3>1. CASE latest = name
        BY <3>1 DEF Refuses
      <3>2. CASE latest # name
        <4>1. now <= name.at + MaxUpload
          BY <3>2 DEF Young
        <4>2. s.at = s.name.at /\ s.at + Retention < now
          BY <2>1 DEF Young, Expired
        <4>3. /\ now \in Nat /\ MaxUpload \in Nat /\ Retention \in Nat
              /\ name.at \in Nat
          BY NowIsTime, ConstantsOK DEF Typed, TypeOK, Assumptions, Name, Time
        <4> QED BY <4>1, <4>2, <4>3
      <3> QED BY <3>1, <3>2
    <2> QED BY <2>1, <2>2 DEF Present, Whole
  <1> QED BY <1>1, <1>2, <1>3 DEF PassStep

LEMMA LinkedNext ==
  ASSUME MaxUpload <= Retention, Typed, Named, Apart, Owned, Young, Linked, [Next]_vars
  PROVE  Linked'
  <1>m. \A u \in Upload : upload[u].pc = "flip" => mode = "rsync" /\ upload[u].name \in Name
    BY BornTypes DEF Typed, TypeOK
  <1>l. latest # NoName => mode = "rsync" /\ latest \in Name
    BY DEF Typed, TypeOK
  <1>1. ASSUME NEW v \in Upload, UploadStep(v) PROVE Linked'
    <2>1. Effect(v)
      BY <1>1, UploadEffect
    <2>2. excused \subseteq excused'
      BY <2>1 DEF Effect
    <2>3. ASSUME NEW u \in Upload, u # v, upload[u].pc # "unborn",
                 upload[u].name \notin excused', Present(upload[u].name)
          PROVE  Present(upload[u].name)' /\ upload'[u] = upload[u]
      <3>1. /\ upload'[u] = upload[u]
            /\ \A f \in files : f.name = upload[u].name => f \in files'
        BY <2>1, <2>3, OthersFiles
      <3> QED BY <2>3, <3>1 DEF Present, Whole
    <2>4. ASSUME NEW u \in Upload, upload'[u].pc = "flip", upload'[u].name \notin excused'
          PROVE  Present(upload[u].name)'
      <3>1. CASE u # v
        <4>1. upload'[u] = upload[u]
          BY <2>1, <3>1 DEF Effect, OnlyOf
        <4> QED BY <2>2, <2>3, <2>4, <3>1, <4>1 DEF Linked
      <3>2. CASE u = v
        <4>1. Own(v)'
          BY <1>1, <2>4, <3>2, OwnSelf
        <4>2. PICK f \in files' : f.name = upload'[v].name
          BY <2>1, <2>4, <3>2 DEF Effect
        <4>3. Typed'
          BY TypedNext
        <4>4. ~f.part
          BY <2>4, <3>2, <4>3 DEF Typed, TypeOK
        <4>5. Settled(upload[v].name)'
          BY <2>4, <3>2, <4>1 DEF Own
        <4> QED BY <3>2, <4>2, <4>4, <4>5 DEF Settled, Listed, Present, Whole
      <3> QED BY <3>1, <3>2
    <2>5. ASSUME latest' # NoName, latest' \notin excused'
          PROVE  /\ Present(latest)'
                 /\ \E u \in Upload : upload'[u].pc = "ended" /\ upload'[u].name = latest'
      <3>1. CASE latest' = latest
        <4>1. PICK u \in Upload : upload[u].pc = "ended" /\ upload[u].name = latest
          BY <2>2, <2>5, <3>1 DEF Linked
        <4>2. Present(upload[u].name) /\ u # v
          BY <2>1, <2>2, <2>5, <3>1, <4>1 DEF Linked, Effect
        <4>3. Present(upload[u].name)' /\ upload'[u] = upload[u]
          BY <2>3, <2>5, <3>1, <4>1, <4>2
        <4>4. upload'[u].name = latest'
          BY <3>1, <4>1, <4>3
        <4>5. Present(latest)'
          BY <4>3, <4>4 DEF Present
        <4> QED BY <4>1, <4>3, <4>4, <4>5
      <3>2. CASE latest' # latest
        <4>1. /\ upload[v].pc = "flip" /\ upload'[v].pc = "ended"
              /\ latest' = upload[v].name /\ files' = files
              /\ upload'[v].name = upload[v].name
          BY <2>1, <3>2 DEF Effect
        <4>2. Present(upload[v].name)
          BY <2>2, <2>5, <4>1 DEF Linked
        <4>3. Present(latest)'
          BY <4>1, <4>2 DEF Present, Whole
        <4> QED BY <4>1, <4>3
      <3> QED BY <3>1, <3>2
    <2> QED BY <2>4, <2>5 DEF Linked
  <1>2. CASE PassStep
    <2>1. UNCHANGED <<now, mode, latest, upload, sender, cold, excused>>
      BY <1>2, PassMoves
    <2>2. ASSUME NEW name \in Name, Present(name), mode = "rsync",
                 \/ latest = name
                 \/ \E u \in Upload : Working(u) /\ upload[u].name = name
          PROVE  Present(name)'
      BY <1>2, <2>2, PresentByPass
    <2>3. ASSUME NEW u \in Upload, upload[u].pc = "flip", upload[u].name \notin excused
          PROVE  Present(upload[u].name)'
      <3>1. upload[u].name \in Name /\ mode = "rsync" /\ Present(upload[u].name)
        BY <1>m, <2>3 DEF Linked
      <3>2. Working(u)
        BY <2>3 DEF Working
      <3> QED BY <2>1, <2>2, <3>1, <3>2 DEF Present
    <2>4. latest # NoName /\ latest \notin excused => Present(latest)'
      BY <1>l, <2>1, <2>2 DEF Linked, Present
    <2> QED BY <2>1, <2>3, <2>4 DEF Linked
  <1>3. CASE Tick \/ SenderStep
    <2>1. files' = files /\ latest' = latest /\ upload' = upload /\ excused \subseteq excused'
      BY <1>3 DEF Tick, SenderStep, SenderTake, SenderRecord, SenderFails
    <2> QED BY <2>1 DEF Linked, Present, Whole
  <1>4. CASE UNCHANGED vars
    BY <1>4 DEF vars, Linked, Present, Whole
  <1> QED BY <1>1, <1>2, <1>3, <1>4 DEF Next

\* The directory that latest names, and the next transfer starts from, is
\* there and complete, if an upload takes no longer than the horizon.
THEOREM LatestIsThere ==
  ASSUME MaxUpload <= Retention
  PROVE  Spec => []LatestIsComplete
  <1> DEFINE Inv == Typed /\ Named /\ Apart /\ Owned /\ Young /\ Linked
  <1>1. Init => Inv
    <2>1. Init => Owned /\ Young /\ Linked
      BY DEF Init, Owned, Young, Linked, Unborn, IdlePass, Working
    <2> QED BY <2>1, TypedInit, NamedInit
  <1>2. Inv /\ [Next]_vars => Inv'
    BY TypedNext, NamedNext, ApartNext, OwnedNext, YoungNext, LinkedNext
  <1>3. Inv => LatestIsComplete
    BY DEF Linked, LatestIsComplete, Present
  <1> QED BY <1>1, <1>2, <1>3, PTL DEF Spec

=============================================================================
