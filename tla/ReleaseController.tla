------------------------- MODULE ReleaseController -------------------------
(***************************************************************************)
(* Releases on a host: installing them (deploy/runtime/install-release with *)
(* safe_extract_artifact and verify_manifest), and the activate and         *)
(* rollback commands of src/src/opennicf/release.py.                        *)
(*                                                                         *)
(* All services run from the one symlink `current'.  A session is one run   *)
(* of the command line; it takes no lock and may be killed between any two  *)
(* system calls.  Versions are numbers in the order of their names, and the *)
(* directory a version is unpacked into, ".<version>.tmp.XXXXXX", sorts     *)
(* before all of them.                                                      *)
(***************************************************************************)
EXTENDS Integers

CONSTANTS
    Last,           \* versions are 1..Last
    Services,
    Sessions,
    MaxCommands,    \* bound on the commands given
    None

ASSUME ReleaseAssumption == Last \in Nat \ {0} /\ MaxCommands \in Nat /\ None \notin Int

VARIABLES
    dirs,           \* the directories under releases/
    current,        \* where the symlink `current' leads
    fresh,          \* where the symlink `.current.new' leads
    running,        \* per service, the release it runs
    session,        \* per session, the command it executes
    overlapped,     \* history: the sessions whose command met another one
    left            \* commands still to come

vars == <<dirs, current, fresh, running, session, overlapped, left>>

Versions == 1..Last

Unpacked(v) == v - Last - 1

Names == Versions \cup {Unpacked(v) : v \in Versions}

Idle == [at |-> "idle", kind |-> "none", service |-> None, version |-> None, found |-> None,
         target |-> None, back |-> FALSE, outcome |-> "none", why |-> "none"]

Busy == {p \in Sessions : session[p].at # "idle"}

-----------------------------------------------------------------------------
(***************************************************************************)
(* Installing.                                                              *)
(***************************************************************************)

Unpack(v) ==
    /\ v \notin dirs
    /\ dirs' = dirs \cup {Unpacked(v)}
    /\ UNCHANGED <<current, fresh, running, session, overlapped, left>>

\* The manifest is right and the directory gets its name, or it is removed.
Verify(v) ==
    /\ Unpacked(v) \in dirs
    /\ \E accepted \in BOOLEAN :
          dirs' = (dirs \ {Unpacked(v)}) \cup (IF accepted THEN {v} ELSE {})
    /\ UNCHANGED <<current, fresh, running, session, overlapped, left>>

-----------------------------------------------------------------------------
(***************************************************************************)
(* Commands.                                                                *)
(***************************************************************************)

Started(kind, s, v) ==
    [Idle EXCEPT !.at = "check", !.kind = kind, !.service = s, !.version = v,
                 !.found = current, !.target = v]

Begin(p, kind, s, v) ==
    /\ session[p].at = "idle" /\ left > 0
    /\ left' = left - 1
    /\ session' = [session EXCEPT ![p] = Started(kind, s, v)]
    /\ overlapped' = IF Busy = {} THEN overlapped \ {p} ELSE overlapped \cup Busy \cup {p}
    /\ UNCHANGED <<dirs, current, fresh, running>>

Activate(p, s, v) == Begin(p, "activate", s, v)

\* The other release whose name comes last.
Rollback(p, s) ==
    \E v \in dirs \ {current} :
        /\ \A other \in dirs \ {current} : other <= v
        /\ Begin(p, "rollback", s, v)

Goto(p, place) == session' = [session EXCEPT ![p].at = place]

\* A command ends "done", "blocked" (main's word for a ReleaseError, an OSError
\* and a ValueError alike), "raised" (a traceback) or "killed".  `why' tells
\* what main does not: a ReleaseError ("gate"), an OSError of the link
\* ("collision"), or another exception ("error").
End(p, outcome, why) ==
    session' = [session EXCEPT ![p].at = "idle", ![p].outcome = outcome, ![p].why = why]

\* Mutant of Raise: a failed gate leaves the new release current.
Raise_Keep(p) == End(p, "blocked", "gate")

\* Mutant of Raise: the return is tried where there was no release.
Raise_NoPrevious(p) ==
    IF session[p].kind = "activate" /\ ~session[p].back
    THEN session' = [session EXCEPT ![p].at = "check", ![p].back = TRUE,
                                    ![p].target = session[p].found]
    ELSE End(p, "blocked", "gate")

\* A ReleaseError after the switch: activation goes back to what it found.
Raise(p) ==
    IF session[p].kind = "activate" /\ ~session[p].back /\ session[p].found # None
    THEN session' = [session EXCEPT ![p].at = "check", ![p].back = TRUE,
                                    ![p].target = session[p].found]
    ELSE End(p, "blocked", "gate")

\* _switch: the directory must be there; the handler is not entered for this.
Check(p) ==
    /\ session[p].at = "check"
    /\ IF session[p].target \in dirs THEN Goto(p, "unlink") ELSE End(p, "blocked", "gate")
    /\ UNCHANGED <<dirs, current, fresh, running, overlapped, left>>

\* Mutant of Unlink: the link of an earlier session is left.
Unlink_Keep(p) ==
    /\ session[p].at = "unlink"
    /\ Goto(p, "link")
    /\ UNCHANGED <<dirs, current, fresh, running, overlapped, left>>

Unlink(p) ==
    /\ session[p].at = "unlink"
    /\ fresh' = None
    /\ Goto(p, "link")
    /\ UNCHANGED <<dirs, current, running, overlapped, left>>

Link(p) ==
    /\ session[p].at = "link"
    /\ IF fresh = None
       THEN fresh' = session[p].target /\ Goto(p, "replace")
       ELSE UNCHANGED fresh /\ End(p, "blocked", "collision")
    /\ UNCHANGED <<dirs, current, running, overlapped, left>>

\* Mutant of Replace: the old link is removed before the new one is moved.
Replace_Remove(p) ==
    /\ session[p].at = "replace"
    /\ IF fresh = None
       THEN UNCHANGED <<current, fresh>> /\ End(p, "blocked", "collision")
       ELSE \/ current' = fresh /\ fresh' = None /\ Goto(p, "restart")
            \/ current' = None /\ UNCHANGED <<fresh, session>>
    /\ UNCHANGED <<dirs, running, overlapped, left>>

\* Path.replace: whoever made the link, it becomes current in one step.
Replace(p) ==
    /\ session[p].at = "replace"
    /\ IF fresh = None
       THEN UNCHANGED <<current, fresh>> /\ End(p, "blocked", "collision")
       ELSE current' = fresh /\ fresh' = None /\ Goto(p, "restart")
    /\ UNCHANGED <<dirs, running, overlapped, left>>

\* systemctl restart: the service starts from where current leads.  A failure,
\* which may have stopped it, is a ReleaseError, and passed over on the way
\* back; where the command cannot be run, the OSError is caught by main alone.
Restart(p) ==
    LET s == session[p].service IN
    /\ session[p].at = "restart"
    /\ \/ /\ running' = [running EXCEPT ![s] = current]
          /\ IF session[p].back THEN End(p, "blocked", "gate") ELSE Goto(p, "ready")
       \/ \E r \in {running[s], None} :
            /\ running' = [running EXCEPT ![s] = r]
            /\ Raise(p)
       \/ End(p, "blocked", "error") /\ UNCHANGED running
    /\ UNCHANGED <<dirs, current, fresh, overlapped, left>>

\* readiness: an answer in time, or the gate fails.  It may also raise: a
\* ValueError (a timeout or URL of the wrong form), which main catches, or an
\* HTTPException, which nobody does.  Neither leads back.
Ready(p) ==
    /\ session[p].at = "ready"
    /\ \/ running[session[p].service] # None /\ End(p, "done", "none")
       \/ Raise(p)
       \/ \E outcome \in {"blocked", "raised"} : End(p, outcome, "error")
    /\ UNCHANGED <<dirs, current, fresh, running, overlapped, left>>

Kill(p) ==
    /\ p \in Busy
    /\ End(p, "killed", "none")
    /\ UNCHANGED <<dirs, current, fresh, running, overlapped, left>>

\* A service ends, or systemd starts it anew (Restart=on-failure).
Respawn(s) ==
    /\ \E r \in {None, current} : r # running[s] /\ running' = [running EXCEPT ![s] = r]
    /\ UNCHANGED <<dirs, current, fresh, session, overlapped, left>>

-----------------------------------------------------------------------------

\* A host with one release in use, or with none yet.
Init ==
    /\ \/ dirs = {} /\ current = None
       \/ dirs = {1} /\ current = 1
    /\ fresh = None
    /\ running = [s \in Services |-> current]
    /\ session = [p \in Sessions |-> Idle]
    /\ overlapped = {}
    /\ left = MaxCommands

Next ==
    \/ \E v \in Versions : Unpack(v) \/ Verify(v)
    \/ \E p \in Sessions :
        \/ \E s \in Services : Rollback(p, s) \/ \E v \in Versions : Activate(p, s, v)
        \/ Check(p) \/ Unlink(p) \/ Link(p) \/ Replace(p)
        \/ Restart(p) \/ Ready(p) \/ Kill(p)
    \/ \E s \in Services : Respawn(s)

Spec == Init /\ [][Next]_vars

-----------------------------------------------------------------------------
(***************************************************************************)
(* Properties                                                               *)
(***************************************************************************)

TypeOK ==
    /\ dirs \subseteq Names
    /\ current \in Names \cup {None} /\ fresh \in Names \cup {None}
    /\ running \in [Services -> Names \cup {None}]
    /\ \A p \in Sessions :
        /\ session[p].at \in {"idle", "check", "unlink", "link", "replace", "restart", "ready"}
        /\ session[p].target \in Names \cup {None}
        /\ session[p].at # "idle" => session[p].target # None
    /\ overlapped \subseteq Sessions
    /\ left \in 0..MaxCommands

\* Killed sessions leave `.current.new' behind, sessions replace each other's
\* link: `current' never disappears once it is there, and a named release it
\* leads to is installed.
CurrentStays ==
    [][/\ current # None => current' # None
       /\ current' \in Versions => current' \in dirs']_vars

\* What a command that met no other one leaves behind.  Done means that its
\* release is current and its service runs it.  An activation that a
\* ReleaseError ended (the directory, systemctl's verdict, readiness' answer)
\* left current where it found it, if that is still a directory.  Any other
\* exception of systemctl or of readiness leaves current where the switch put
\* it: at the new release, unless the activation was on its way back.
VerdictHolds ==
    [][\A p \in Sessions :
         (p \in Busy /\ session'[p].at = "idle" /\ p \notin overlapped) =>
            /\ session'[p].outcome = "done" =>
                  current' = session[p].version /\ running'[session[p].service] = current'
            /\ session'[p].outcome \in {"blocked", "raised"} /\ session[p].kind = "activate"
                 /\ session[p].found \in dirs =>
                    current' = IF session'[p].why = "gate" \/ session[p].back
                               THEN session[p].found ELSE session[p].version]_vars

\* What a killed session left behind stops no later one: a switch collides
\* only with that of another session under way.
LeftoverHarmless ==
    \A p \in Sessions : session[p].why = "collision" => p \in overlapped
=============================================================================
