---------------------------- MODULE RcloneConfig ----------------------------
(***************************************************************************)
(* The offsite remotes: the table remotes, rclone.conf, which every rclone *)
(* process reads when it starts, and the handlers of the dashboard that    *)
(* create, edit or delete a remote and then rewrite the file from a        *)
(* listing of the table.  Handlers share no lock.  The file is not put in  *)
(* place by a rename: os.WriteFile empties it and then writes from its     *)
(* beginning, in two steps that other handlers can come between.           *)
(***************************************************************************)
EXTENDS Naturals

CONSTANTS
    Name,      \* remote names
    Field,     \* fields of the backend's form
    Required,  \* those a new remote must have
    Value,     \* what can be typed, obscured if it is a password
    Request    \* handlers that can be under way at once

ASSUME FieldAssumption == Required \subseteq Field
ASSUME RequestAssumption == Request \cap {"written", "lost"} = {}
ASSUME ValueAssumption == Value \subseteq Nat \ {0}

Blank == 0  \* a field without a value, or left empty in the form

Form == [Field -> Value \cup {Blank}]

Remote == [name: Name, cfg: Form]

\* What rclone.conf can hold: the sections of a listing, or the sections of
\* one followed by the rest of another, which is no listing at all.
Mixed == [whole |-> FALSE, sections |-> {}]
Sections(S) == [whole |-> TRUE, sections |-> S]

VARIABLES
    remotes,  \* the table
    file,     \* rclone.conf
    req,      \* the handlers
    listing,  \* history: whose listing is the latest, or what became of it
    typed,    \* history: the last value typed into each field of a remote
    raced     \* history: remotes overwritten by an edit of an older reading

vars == <<remotes, file, req, listing, typed, raced>>

Idle ==
    [pc |-> "idle", form |-> {}, read |-> {}, list |-> {}]

NoValues == [f \in Field |-> Blank]

Init ==
    /\ remotes = {}
    /\ file = Sections({})
    /\ req = [q \in Request |-> Idle]
    /\ listing = "written"
    /\ typed = [n \in Name |-> NoValues]
    /\ raced = {}

Goto(q, state) == req' = [req EXCEPT ![q] = state]

-----------------------------------------------------------------------------
(* The handlers.                                                           *)

\* Mutant: a name may be taken.
PostRemotesAnyName(q) ==
    /\ req[q].pc = "idle"
    /\ \E n \in Name, form \in Form :
        /\ \A f \in Required : form[f] # Blank
        /\ remotes' = remotes \cup {[name |-> n, cfg |-> form]}
        /\ typed' = [typed EXCEPT ![n] = form]
        /\ raced' = raced \ {n}
    /\ Goto(q, [Idle EXCEPT !.pc = "list"])
    /\ UNCHANGED <<file, listing>>

\* CreateRemote: names are UNIQUE.
PostRemotes(q) ==
    /\ req[q].pc = "idle"
    /\ \E n \in Name, form \in Form :
        /\ \A f \in Required : form[f] # Blank
        /\ \A x \in remotes : x.name # n
        /\ remotes' = remotes \cup {[name |-> n, cfg |-> form]}
        /\ typed' = [typed EXCEPT ![n] = form]
        /\ raced' = raced \ {n}
    /\ Goto(q, [Idle EXCEPT !.pc = "list"])
    /\ UNCHANGED <<file, listing>>

\* GetRemoteByName: the handler of an edit holds the remote as it was then.
PostEditReads(q) ==
    /\ req[q].pc = "idle"
    /\ \E x \in remotes, form \in Form :
        Goto(q, [Idle EXCEPT !.pc = "edit", !.read = {x}, !.form = {form}])
    /\ UNCHANGED <<remotes, file, listing, typed, raced>>

\* Mutant: what is left empty is erased.
MergeErases(form, old) == form

\* Fields left empty keep their values.
Merge(form, old) ==
    [f \in Field |-> IF form[f] = Blank THEN old[f] ELSE form[f]]

\* The row an edit names, if it is still there.
Named(n) == {x \in remotes : x.name = n}

\* UpdateRemote: by name, whatever has happened since the reading; nothing is
\* updated, and no error given, if there is no such remote.
Updated(n, cfg) ==
    (remotes \ Named(n)) \cup {[x EXCEPT !.cfg = cfg] : x \in Named(n)}

PostEdit(q) ==
    /\ req[q].pc = "edit"
    /\ \E read \in req[q].read, form \in req[q].form :
        LET n == read.name IN
        /\ remotes' = Updated(n, Merge(form, read.cfg))
        /\ typed' = IF Named(n) = {} THEN typed
                    ELSE [typed EXCEPT ![n] =
                            [f \in Field |-> IF form[f] = Blank
                                             THEN typed[n][f] ELSE form[f]]]
        /\ raced' = IF Named(n) \subseteq {read} THEN raced ELSE raced \cup {n}
    /\ Goto(q, [Idle EXCEPT !.pc = "list"])
    /\ UNCHANGED <<file, listing>>

\* A password cannot be obscured, or the store fails.
PostEditFails(q) ==
    /\ req[q].pc = "edit"
    /\ Goto(q, Idle)
    /\ UNCHANGED <<remotes, file, listing, typed, raced>>

\* DeleteRemote: no matter who uses it, and no error if it is gone.
PostDeleteRemote(q) ==
    /\ req[q].pc = "idle"
    /\ \E n \in Name :
        /\ remotes' = remotes \ Named(n)
        /\ typed' = [typed EXCEPT ![n] = NoValues]
        /\ raced' = raced \ {n}
    /\ Goto(q, [Idle EXCEPT !.pc = "list"])
    /\ UNCHANGED <<file, listing>>

-----------------------------------------------------------------------------
(* writeRcloneConfig.  An error is logged and the handler reports success. *)

ConfigList(q) ==
    /\ req[q].pc = "list"
    /\ Goto(q, [Idle EXCEPT !.pc = "truncate", !.list = remotes])
    /\ listing' = q
    /\ UNCHANGED <<remotes, file, typed, raced>>

\* O_TRUNC
ConfigTruncate(q) ==
    /\ req[q].pc = "truncate"
    /\ file' = Sections({})
    /\ Goto(q, [req[q] EXCEPT !.pc = "write"])
    /\ UNCHANGED <<remotes, listing, typed, raced>>

\* Mutant: the last section is never written.
WrittenAllButOne(old, S) ==
    {Sections(S \ {x}) : x \in S}

\* Bytes from the beginning of the file, over what is there.  If that is the
\* work of another handler since the truncation, as many of its bytes remain
\* as it is longer; which of two listings is depends on names and values.
Written(old, S) ==
    IF S = {} THEN {old}
    ELSE IF old \in {Sections({}), Sections(S)} THEN {Sections(S)}
    ELSE {Sections(S), Mixed}

OthersWriting(q) == \E p \in Request \ {q} : req[p].pc = "write"

ConfigWrite(q) ==
    /\ req[q].pc = "write"
    /\ file' \in Written(file, req[q].list)
    /\ Goto(q, Idle)
    /\ listing' = IF OthersWriting(q) \/ listing = "written" THEN "lost"
                  ELSE IF listing = q THEN "written" ELSE listing
    /\ UNCHANGED <<remotes, typed, raced>>

\* Before the truncation the old file stays; after it, nothing is in it.
ConfigFails(q) ==
    /\ req[q].pc \in {"list", "truncate", "write"}
    /\ Goto(q, Idle)
    /\ listing' = "lost"
    /\ UNCHANGED <<remotes, file, typed, raced>>

\* RegenerateRcloneConfig runs before anything else does; its error is logged.
Restart(written) ==
    /\ req' = [q \in Request |-> Idle]
    /\ file' = IF written THEN Sections(remotes) ELSE file
    /\ listing' = IF written THEN "written" ELSE "lost"
    /\ UNCHANGED <<remotes, typed, raced>>

Handler(q) ==
    \/ PostRemotes(q) \/ PostDeleteRemote(q)
    \/ PostEditReads(q) \/ PostEdit(q) \/ PostEditFails(q)
    \/ ConfigList(q) \/ ConfigTruncate(q) \/ ConfigWrite(q) \/ ConfigFails(q)

Next ==
    \/ \E q \in Request : Handler(q)
    \/ \E written \in BOOLEAN : Restart(written)

Spec == Init /\ [][Next]_vars

-----------------------------------------------------------------------------
(* Properties.                                                             *)

\* Rows, forms and the file are of their types; names are unique.
TypeOK ==
    /\ remotes \subseteq Remote
    /\ \A x, y \in remotes : x.name = y.name => x = y
    /\ file \in [whole: BOOLEAN, sections: SUBSET Remote]
    /\ req \in [Request ->
        [pc: {"idle", "edit", "list", "truncate", "write"},
         form: SUBSET Form, read: SUBSET Remote,
         list: SUBSET Remote]]
    /\ listing \in Request \cup {"written", "lost"}
    /\ typed \in [Name -> Form]
    /\ raced \subseteq Name

Quiet == \A q \in Request : req[q].pc \notin {"list", "truncate", "write"}

\* rclone sees the remotes as they are once no rewriting is under way, unless
\* rewritings overlapped or the latest one failed.
ConfigFollowsLatestListing ==
    Quiet /\ listing = "written" => file = Sections(remotes)

\* A password or key that an operator entered is in force until another one
\* is entered for it: edits of other fields keep it, unless an edit worked on
\* an older reading of the remote.
LastTypedInForce ==
    \A x \in remotes : x.name \notin raced => x.cfg = typed[x.name]

\* However rewritings overlap, the file is some listing of the remotes.
ConfigWhole == file.whole
=============================================================================
