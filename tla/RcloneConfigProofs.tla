------------------------- MODULE RcloneConfigProofs -------------------------
(***************************************************************************)
(* What RcloneConfig keeps for any names, fields and values and any number *)
(* of handlers at once.                                                    *)
(***************************************************************************)
EXTENDS RcloneConfig, TLAPS

\* A request that has changed the table and not listed it yet, and one that
\* has emptied the file and not written it yet.
Dirty == \E q \in Request : req[q].pc = "list"
Emptied == \E q \in Request : req[q].pc = "write"

\* The latest listing is on its way into the file, which stays empty from the
\* truncation on; or it has arrived, and stays until somebody else truncates.
Followed ==
    /\ listing \in Request =>
        /\ req[listing].pc \in {"truncate", "write"}
        /\ req[listing].pc = "write" => file = Sections({})
        /\ ~Dirty => req[listing].list = remotes
    /\ listing = "written" =>
        (~Dirty /\ ~Emptied => file = Sections(remotes))

IInv == TypeOK /\ Followed /\ LastTypedInForce

State == [pc: {"idle", "edit", "list", "truncate", "write"},
          form: SUBSET Form, read: SUBSET Remote, list: SUBSET Remote]

File == [whole: BOOLEAN, sections: SUBSET Remote]

-----------------------------------------------------------------------------
LEMMA IdleState ==
  /\ Idle \in State /\ Idle.pc = "idle"
  /\ [Idle EXCEPT !.pc = "list"] \in State
  /\ [Idle EXCEPT !.pc = "list"].pc = "list"
  BY DEF Idle, State

LEMMA SectionsType == ASSUME NEW S \in SUBSET Remote PROVE Sections(S) \in File
  BY DEF Sections, File

LEMMA WrittenType ==
  ASSUME NEW old \in File, NEW S \in SUBSET Remote, NEW new \in Written(old, S)
  PROVE  new \in File
  <1>1. Mixed \in File
    BY DEF Mixed, File
  <1> QED  BY <1>1, SectionsType DEF Written

\* A step of a handler changes its own state only.
LEMMA GotoType ==
  ASSUME TypeOK, NEW q \in Request, NEW s \in State, Goto(q, s)
  PROVE  /\ req' \in [Request -> State]
         /\ req'[q] = s
         /\ \A p \in Request : p # q => req'[p] = req[p]
  BY DEF TypeOK, Goto, State

LEMMA InitIInv == Init => IInv
  <1> SUFFICES ASSUME Init PROVE IInv
      OBVIOUS
  <1>1. TypeOK
    <2>1. file \in File
      BY SectionsType DEF Init
    <2>2. typed \in [Name -> Form]
      BY DEF Init, NoValues, Form
    <2> QED  BY <2>1, <2>2, IdleState DEF Init, TypeOK, State, File
  <1>2. Followed
    BY RequestAssumption DEF Init, Followed
  <1> QED  BY <1>1, <1>2 DEF IInv, Init, LastTypedInForce

-----------------------------------------------------------------------------
(* The handlers.                                                           *)

\* A change of the table leaves a handler that has yet to list it.
LEMMA TableChanged ==
  ASSUME IInv, NEW q \in Request, NEW s \in State, Goto(q, s), s.pc = "list",
         req[q].pc \in {"idle", "edit"}, UNCHANGED <<file, listing>>
  PROVE  Followed'
  <1>1. Dirty'
    BY GotoType DEF IInv, Dirty
  <1>2. listing \in Request => req'[listing] = req[listing]
    BY GotoType DEF IInv, Followed
  <1> QED  BY <1>1, <1>2 DEF IInv, Followed

LEMMA Create ==
  ASSUME IInv, NEW q \in Request, PostRemotes(q)
  PROVE  IInv'
  <1>1. PICK n \in Name, form \in Form :
          /\ \A x \in remotes : x.name # n
          /\ remotes' = remotes \cup {[name |-> n, cfg |-> form]}
          /\ typed' = [typed EXCEPT ![n] = form]
          /\ raced' = raced \ {n}
    BY DEF PostRemotes
  <1> DEFINE z == [name |-> n, cfg |-> form]
  <1>2. z \in Remote /\ z.name = n /\ z.cfg = form
    BY DEF Remote
  <1>3. TypeOK'
    <2>1. req' \in [Request -> State]
      BY IdleState, GotoType DEF IInv, PostRemotes
    <2>2. remotes' \subseteq Remote
      BY <1>1, <1>2 DEF IInv, TypeOK
    <2>3. \A x, y \in remotes' : x.name = y.name => x = y
      BY <1>1, <1>2 DEF IInv, TypeOK
    <2>4. typed' \in [Name -> Form] /\ raced' \subseteq Name
      BY <1>1 DEF IInv, TypeOK
    <2> QED  BY <2>1, <2>2, <2>3, <2>4 DEF IInv, TypeOK, PostRemotes, State
  <1>4. Followed'
    BY IdleState, TableChanged DEF PostRemotes
  <1>5. LastTypedInForce'
    <2> SUFFICES ASSUME NEW x \in remotes', x.name \notin raced'
                 PROVE  x.cfg = typed'[x.name]
      BY DEF LastTypedInForce
    <2>1. CASE x \in remotes
      BY <1>1, <2>1 DEF IInv, TypeOK, LastTypedInForce
    <2>2. CASE x = z
      BY <1>1, <1>2, <2>2 DEF IInv, TypeOK
    <2> QED  BY <1>1, <2>1, <2>2
  <1> QED  BY <1>3, <1>4, <1>5 DEF IInv

LEMMA Delete ==
  ASSUME IInv, NEW q \in Request, PostDeleteRemote(q)
  PROVE  IInv'
  <1>1. PICK n \in Name :
          /\ remotes' = remotes \ Named(n)
          /\ typed' = [typed EXCEPT ![n] = NoValues]
          /\ raced' = raced \ {n}
    BY DEF PostDeleteRemote
  <1>2. TypeOK'
    <2>1. req' \in [Request -> State]
      BY IdleState, GotoType DEF IInv, PostDeleteRemote
    <2>2. typed' \in [Name -> Form]
      BY <1>1 DEF IInv, TypeOK, NoValues, Form
    <2> QED  BY <1>1, <2>1, <2>2 DEF IInv, TypeOK, PostDeleteRemote, State
  <1>3. Followed'
    BY IdleState, TableChanged DEF PostDeleteRemote
  <1>4. LastTypedInForce'
    BY <1>1 DEF IInv, TypeOK, LastTypedInForce, Named
  <1> QED  BY <1>2, <1>3, <1>4 DEF IInv

LEMMA Edit ==
  ASSUME IInv, NEW q \in Request, PostEdit(q)
  PROVE  IInv'
  <1>1. PICK read \in req[q].read, form \in req[q].form :
          LET n == read.name IN
          /\ remotes' = Updated(n, Merge(form, read.cfg))
          /\ typed' = IF Named(n) = {} THEN typed
                      ELSE [typed EXCEPT ![n] =
                              [f \in Field |-> IF form[f] = Blank
                                               THEN typed[n][f] ELSE form[f]]]
          /\ raced' = IF Named(n) \subseteq {read} THEN raced ELSE raced \cup {n}
    BY DEF PostEdit
  <1> DEFINE n == read.name
             cfg == Merge(form, read.cfg)
             new == [f \in Field |-> IF form[f] = Blank
                                     THEN typed[n][f] ELSE form[f]]
  <1>2. read \in Remote /\ n \in Name /\ form \in Form /\ read.cfg \in Form
    BY DEF IInv, TypeOK, Remote
  <1>3. cfg \in Form /\ new \in Form
    BY <1>2 DEF IInv, TypeOK, Merge, Form
  <1>4. \A x \in remotes' :
          \/ x \in remotes /\ x.name # n
          \/ x \in Remote /\ x.name = n /\ x.cfg = cfg /\ Named(n) # {}
    <2> HIDE DEF cfg, n
    <2> SUFFICES ASSUME NEW x \in remotes'
                 PROVE  \/ x \in remotes /\ x.name # n
                        \/ x \in Remote /\ x.name = n /\ x.cfg = cfg /\ Named(n) # {}
      OBVIOUS
    <2>1. CASE x \in remotes \ Named(n)
      BY <2>1 DEF Named
    <2>2. ASSUME NEW y \in Named(n), x = [y EXCEPT !.cfg = cfg]
          PROVE  x \in Remote /\ x.name = n /\ x.cfg = cfg
      BY <1>3, <2>2 DEF IInv, TypeOK, Named, Remote
    <2> QED  BY <1>1, <2>1, <2>2 DEF Updated, cfg, n
  <1>5. \A x, y \in remotes' : x.name = y.name => x = y
    <2> HIDE DEF cfg, n
    <2> SUFFICES ASSUME NEW x \in remotes', NEW y \in remotes', x.name = y.name
                 PROVE  x = y
      OBVIOUS
    <2>1. CASE x \in remotes /\ x.name # n
      BY <1>4, <2>1 DEF IInv, TypeOK
    <2>2. CASE x.name = n
      <3>1. PICK u \in Named(n) : x = [u EXCEPT !.cfg = cfg]
        BY <1>1, <2>2 DEF Updated, Named, cfg, n
      <3>2. PICK v \in Named(n) : y = [v EXCEPT !.cfg = cfg]
        BY <1>1, <2>2 DEF Updated, Named, cfg, n
      <3>3. u = v
        BY DEF IInv, TypeOK, Named
      <3> QED  BY <3>1, <3>2, <3>3
    <2> QED  BY <1>4, <2>1, <2>2
  <1>6. TypeOK'
    <2>1. req' \in [Request -> State]
      BY IdleState, GotoType DEF IInv, PostEdit
    <2>2. remotes' \subseteq Remote
      BY <1>4 DEF IInv, TypeOK
    <2>3. typed' \in [Name -> Form]
      BY <1>1, <1>3 DEF IInv, TypeOK
    <2>4. raced' \subseteq Name
      BY <1>1, <1>2 DEF IInv, TypeOK
    <2> QED  BY <1>5, <2>1, <2>2, <2>3, <2>4 DEF IInv, TypeOK, PostEdit, State
  <1>7. Followed'
    BY IdleState, TableChanged DEF PostEdit
  <1>8. LastTypedInForce'
    <2> SUFFICES ASSUME NEW x \in remotes', x.name \notin raced'
                 PROVE  x.cfg = typed'[x.name]
      BY DEF LastTypedInForce
    <2>0. x.name \notin raced
      BY <1>1
    <2>1. CASE x \in remotes /\ x.name # n
      <3>1. typed'[x.name] = typed[x.name]
        BY <1>1, <1>2, <2>1 DEF IInv, TypeOK, Remote
      <3> QED  BY <2>0, <2>1, <3>1 DEF IInv, LastTypedInForce
    <2>2. CASE x.name = n /\ x.cfg = cfg /\ Named(n) # {}
      <3>1. Named(n) = {read}
        BY <1>1, <2>2
      <3>2. read.cfg = typed[n]
        BY <2>0, <2>2, <3>1 DEF IInv, LastTypedInForce, Named
      <3>3. typed'[n] = new
        BY <1>1, <1>2, <2>2 DEF IInv, TypeOK
      <3> QED  BY <2>2, <3>2, <3>3 DEF Merge
    <2> QED  BY <1>4, <2>1, <2>2
  <1> QED  BY <1>6, <1>7, <1>8 DEF IInv

LEMMA EditReads ==
  ASSUME IInv, NEW q \in Request, PostEditReads(q) \/ PostEditFails(q)
  PROVE  IInv'
  <1>1. PICK s \in State : Goto(q, s) /\ s.pc \in {"edit", "idle"}
    <2>1. CASE PostEditReads(q)
      <3>1. PICK x \in remotes, form \in Form :
              Goto(q, [Idle EXCEPT !.pc = "edit", !.read = {x}, !.form = {form}])
        BY <2>1 DEF PostEditReads
      <3>2. [Idle EXCEPT !.pc = "edit", !.read = {x}, !.form = {form}] \in State
        <4>1. x \in Remote
          BY DEF IInv, TypeOK
        <4> QED  BY <4>1 DEF Idle, State
      <3>3. [Idle EXCEPT !.pc = "edit", !.read = {x}, !.form = {form}].pc = "edit"
        BY DEF Idle
      <3> QED  BY <3>1, <3>2, <3>3
    <2>2. CASE PostEditFails(q)
      BY <2>2, IdleState DEF PostEditFails
    <2> QED  BY <2>1, <2>2
  <1>2. req[q].pc \in {"idle", "edit"} /\ UNCHANGED <<remotes, file, listing, typed, raced>>
    BY DEF PostEditReads, PostEditFails
  <1>3. TypeOK'
    BY <1>1, <1>2, GotoType DEF IInv, TypeOK, State
  <1>4. Followed'
    <2>1. (Dirty' <=> Dirty) /\ (Emptied' <=> Emptied)
      BY <1>1, <1>2, GotoType DEF IInv, Dirty, Emptied
    <2>2. listing \in Request => req'[listing] = req[listing]
      BY <1>1, <1>2, GotoType DEF IInv, Followed
    <2> QED  BY <1>2, <2>1, <2>2 DEF IInv, Followed
  <1> QED  BY <1>2, <1>3, <1>4 DEF IInv, LastTypedInForce

-----------------------------------------------------------------------------
(* The rewriting of the file.                                              *)

LEMMA List ==
  ASSUME IInv, NEW q \in Request, ConfigList(q)
  PROVE  IInv'
  <1> DEFINE s == [Idle EXCEPT !.pc = "truncate", !.list = remotes]
  <1>1. s \in State /\ s.pc = "truncate" /\ s.list = remotes /\ Goto(q, s)
    BY DEF IInv, TypeOK, ConfigList, Idle, State
  <1> HIDE DEF s
  <1>2. TypeOK'
    BY <1>1, GotoType DEF IInv, TypeOK, ConfigList, State
  <1>3. Followed'
    BY <1>1, GotoType, RequestAssumption DEF IInv, Followed, ConfigList
  <1> QED  BY <1>2, <1>3 DEF IInv, LastTypedInForce, ConfigList

LEMMA Truncate ==
  ASSUME IInv, NEW q \in Request, ConfigTruncate(q)
  PROVE  IInv'
  <1> DEFINE s == [req[q] EXCEPT !.pc = "write"]
  <1>1. s \in State /\ s.pc = "write" /\ s.list = req[q].list /\ Goto(q, s)
    BY DEF IInv, TypeOK, ConfigTruncate, State
  <1> HIDE DEF s
  <1>2. TypeOK'
    BY <1>1, GotoType, SectionsType DEF IInv, TypeOK, ConfigTruncate, State, File
  <1>3. Followed'
    <2>1. Emptied'
      BY <1>1, GotoType DEF IInv, Emptied
    <2>2. Dirty' <=> Dirty
      BY <1>1, GotoType DEF IInv, Dirty, ConfigTruncate
    <2>3. listing \in Request =>
            /\ req'[listing].pc \in {"truncate", "write"}
            /\ req'[listing].list = req[listing].list
      BY <1>1, GotoType DEF IInv, Followed
    <2> QED  BY <2>1, <2>2, <2>3 DEF IInv, Followed, ConfigTruncate
  <1> QED  BY <1>2, <1>3 DEF IInv, LastTypedInForce, ConfigTruncate

LEMMA Write ==
  ASSUME IInv, NEW q \in Request, ConfigWrite(q)
  PROVE  IInv'
  <1>1. Goto(q, Idle) /\ req[q] \in State /\ req[q].pc = "write"
    BY DEF IInv, TypeOK, ConfigWrite, State
  <1>2. listing' \in Request \cup {"written", "lost"}
    BY DEF IInv, TypeOK, ConfigWrite
  <1>3. TypeOK'
    <2>1. req' \in [Request -> State]
      BY <1>1, IdleState, GotoType DEF IInv
    <2>2. file' \in File
      BY <1>1, WrittenType DEF IInv, TypeOK, ConfigWrite, State, File
    <2> QED  BY <1>2, <2>1, <2>2 DEF IInv, TypeOK, ConfigWrite, State, File
  <1>4. Followed'
    <2>1. Dirty' <=> Dirty
      BY <1>1, IdleState, GotoType DEF IInv, Dirty
    <2>2. CASE listing' = "lost"
      BY <2>2, RequestAssumption DEF Followed
    <2>3. CASE ~OthersWriting(q) /\ listing = q
      <3>1. listing' = "written"
        BY <2>3, RequestAssumption DEF ConfigWrite
      <3>2. file = Sections({})
        BY <1>1, <2>3 DEF IInv, Followed
      <3>3. file' = Sections(req[q].list)
        <4>1. file' \in Written(Sections({}), req[q].list)
          BY <3>2 DEF ConfigWrite
        <4> QED  BY <4>1 DEF Written
      <3>4. ~Dirty => req[q].list = remotes
        BY <2>3 DEF IInv, Followed
      <3> QED  BY <2>1, <3>1, <3>3, <3>4, RequestAssumption DEF Followed, ConfigWrite
    <2>4. CASE ~OthersWriting(q) /\ listing # q /\ listing # "written"
      <3>1. listing' = listing
        BY <2>4 DEF ConfigWrite
      <3>2. listing \in Request => req'[listing] = req[listing]
        BY <1>1, <2>4, IdleState, GotoType DEF IInv
      <3>3. listing \in Request => req[listing].pc # "write"
        BY <2>4 DEF OthersWriting
      <3> QED  BY <2>1, <2>4, <3>1, <3>2, <3>3 DEF IInv, Followed, ConfigWrite
    <2>5. CASE OthersWriting(q) \/ listing = "written"
      <3>1. listing' = "lost"
        BY <2>5 DEF ConfigWrite
      <3> QED  BY <3>1, <2>2
    <2> QED  BY <2>3, <2>4, <2>5
  <1> QED  BY <1>3, <1>4 DEF IInv, LastTypedInForce, ConfigWrite

LEMMA Fail ==
  ASSUME IInv, NEW q \in Request, ConfigFails(q)
  PROVE  IInv'
  <1>1. TypeOK'
    BY IdleState, GotoType DEF IInv, TypeOK, ConfigFails, State
  <1>2. Followed'
    BY RequestAssumption DEF Followed, ConfigFails
  <1> QED  BY <1>1, <1>2 DEF IInv, LastTypedInForce, ConfigFails

LEMMA Restarted ==
  ASSUME IInv, NEW written \in BOOLEAN, Restart(written)
  PROVE  IInv'
  <1>1. TypeOK'
    <2>1. file' \in File
      BY SectionsType DEF IInv, TypeOK, Restart, File
    <2>2. req' \in [Request -> State]
      BY IdleState DEF Restart
    <2> QED  BY <2>1, <2>2 DEF IInv, TypeOK, Restart, State, File
  <1>2. Followed'
    BY RequestAssumption DEF Followed, Restart
  <1> QED  BY <1>1, <1>2 DEF IInv, LastTypedInForce, Restart

LEMMA NextIInv == IInv /\ [Next]_vars => IInv'
  <1> SUFFICES ASSUME IInv, [Next]_vars PROVE IInv'
      OBVIOUS
  <1>1. ASSUME NEW q \in Request, Handler(q) PROVE IInv'
    BY <1>1, Create, Delete, EditReads, Edit, List, Truncate, Write, Fail DEF Handler
  <1>2. CASE UNCHANGED vars
    BY <1>2 DEF IInv, TypeOK, Followed, Dirty, Emptied, LastTypedInForce, vars
  <1> QED  BY <1>1, <1>2, Restarted DEF Next

LEMMA Invariant == Spec => []IInv
  <1> QED  BY InitIInv, NextIInv, PTL DEF Spec

-----------------------------------------------------------------------------
\* Rows, forms and the file are of their types; names are unique
\* (schema.sql:57-63, remotes.go:66-136).
THEOREM TypeCorrect == Spec => []TypeOK
  <1>1. IInv => TypeOK
    BY DEF IInv
  <1> QED  BY <1>1, Invariant, PTL

\* Once no rewriting is under way, rclone.conf is the table, unless rewritings
\* overlapped or the latest one failed (writeRcloneConfig, remotes.go:18-32).
THEOREM ConfigFollows == Spec => []ConfigFollowsLatestListing
  <1>1. IInv => ConfigFollowsLatestListing
    BY DEF IInv, ConfigFollowsLatestListing, Followed, Quiet, Dirty, Emptied
  <1> QED  BY <1>1, Invariant, PTL

\* What was last typed into a field is in force, unless an edit worked on an
\* older reading (postEditRemote, remotes.go:172-230).
THEOREM TypedInForce == Spec => []LastTypedInForce
  <1>1. IInv => LastTypedInForce
    BY DEF IInv
  <1> QED  BY <1>1, Invariant, PTL
=============================================================================
