----------------------- MODULE ReleaseController_proofs -----------------------
(***************************************************************************)
(* Proofs about ReleaseController for every number of versions, services,  *)
(* sessions and commands.                                                  *)
(***************************************************************************)
EXTENDS ReleaseController, TLAPS

USE ReleaseAssumption

-----------------------------------------------------------------------------
(* The session of a command line, as a record.                             *)

Places == {"idle", "check", "unlink", "link", "replace", "restart", "ready"}

Outcomes == {"done", "blocked", "raised", "killed"}

Reasons == {"none", "gate", "collision", "error"}

Commands == [at : Places, kind : {"none", "activate", "rollback"},
             service : Services \cup {None}, version : Names \cup {None},
             found : Names \cup {None}, target : Names \cup {None}, back : BOOLEAN,
             outcome : Outcomes \cup {"none"}, why : Reasons]

\* What a session knows of its command while it runs.
Aware(p) ==
    session[p].at # "idle" =>
        /\ session[p].kind # "none"
        /\ session[p].service \in Services
        /\ session[p].target # None /\ session[p].version # None
        /\ session[p].back => session[p].target = session[p].found
        /\ ~session[p].back => session[p].target = session[p].version

Typed ==
    /\ dirs \subseteq Names
    /\ current \in Names \cup {None} /\ fresh \in Names \cup {None}
    /\ running \in [Services -> Names \cup {None}]
    /\ session \in [Sessions -> Commands]
    /\ \A p \in Sessions : Aware(p)
    /\ overlapped \subseteq Sessions
    /\ left \in 0..MaxCommands

LEMMA NamesApart ==
  /\ None \notin Names
  /\ \A v \in Versions : Unpacked(v) \in Names /\ Unpacked(v) \notin Versions /\ v \in Names
BY DEF Names, Versions, Unpacked

LEMMA TypedInit == Init => Typed
<1> SUFFICES ASSUME Init PROVE Typed
  OBVIOUS
<1>1. current \in Names \cup {None} /\ dirs \subseteq Names
  BY DEF Init, Names, Versions
<1>2. Idle \in Commands
  BY DEF Idle, Commands, Places, Reasons
<1>3. \A p \in Sessions : Aware(p)
  BY DEF Init, Idle, Aware
<1>4. QED
  BY <1>1, <1>2, <1>3 DEF Init, Typed

\* What a command line asked for and found does not change while it runs.
Same(p) == /\ session'[p].kind = session[p].kind /\ session'[p].service = session[p].service
           /\ session'[p].version = session[p].version /\ session'[p].found = session[p].found

Others(p) == \A q \in Sessions \ {p} : session'[q] = session[q]

LEMMA BeginStep ==
  ASSUME Typed, NEW p \in Sessions, NEW kind \in {"activate", "rollback"},
         NEW s \in Services, NEW v \in Names, Begin(p, kind, s, v)
  PROVE  /\ session'[p] = Started(kind, s, v)
         /\ Others(p)
         /\ Typed'
<1>1. Started(kind, s, v) \in Commands
  BY DEF Started, Idle, Commands, Places, Reasons, Typed
<1>2. /\ session' \in [Sessions -> Commands]
      /\ session'[p] = Started(kind, s, v)
      /\ Others(p)
  BY <1>1 DEF Typed, Begin, Others
<1>3. Aware(p)'
  BY <1>2, NamesApart DEF Aware, Started, Idle
<1>4. \A q \in Sessions : Aware(q)'
  BY <1>2, <1>3 DEF Typed, Aware, Others
<1>5. overlapped' \subseteq Sessions /\ left' \in 0..MaxCommands
  BY DEF Typed, Begin, Busy
<1>6. QED
  BY <1>2, <1>4, <1>5 DEF Typed, Begin, Others

LEMMA EndStep ==
  ASSUME Typed, NEW p \in Sessions, NEW outcome \in Outcomes, NEW why \in Reasons,
         End(p, outcome, why)
  PROVE  /\ session' \in [Sessions -> Commands] /\ \A q \in Sessions : Aware(q)'
         /\ session'[p].at = "idle"
         /\ session'[p].outcome = outcome /\ session'[p].why = why
         /\ Same(p) /\ Others(p)
<1> DEFINE ended == [session[p] EXCEPT !.at = "idle", !.outcome = outcome, !.why = why]
<1>1. session[p] \in Commands
  BY DEF Typed
<1>2. ended \in Commands /\ ended.at = "idle" /\ ended.outcome = outcome /\ ended.why = why
  BY <1>1 DEF Commands, Places
<1>3. session' = [session EXCEPT ![p] = ended]
  BY DEF End, Typed
<1>4. session' \in [Sessions -> Commands] /\ session'[p] = ended /\ Others(p)
  BY <1>2, <1>3 DEF Typed, Others
<1>5. \A q \in Sessions : Aware(q)'
  BY <1>2, <1>4 DEF Typed, Aware, Others
<1>6. Same(p)
  BY <1>1, <1>4 DEF Same, Commands
<1>7. QED
  BY <1>2, <1>4, <1>5, <1>6

LEMMA GotoStep ==
  ASSUME Typed, NEW p \in Sessions, session[p].at # "idle", NEW place \in Places, Goto(p, place)
  PROVE  /\ session' \in [Sessions -> Commands] /\ \A q \in Sessions : Aware(q)'
         /\ session'[p].at = place
         /\ session'[p].outcome = session[p].outcome /\ session'[p].why = session[p].why
         /\ session'[p].target = session[p].target /\ session'[p].back = session[p].back
         /\ Same(p) /\ Others(p)
<1>1. session[p] \in Commands
  BY DEF Typed
<1>2. session' \in [Sessions -> Commands] /\ \A q \in Sessions : Aware(q)'
  BY DEF Goto, Typed, Commands, Places, Aware
<1>3. session'[p] = [session[p] EXCEPT !.at = place] /\ Others(p)
  BY DEF Goto, Typed, Others
<1>4. QED
  BY <1>1, <1>2, <1>3 DEF Same, Commands

\* A failed gate is the end of a command, or its one return.
Returns(p) == session[p].kind = "activate" /\ ~session[p].back /\ session[p].found # None

LEMMA RaiseStep ==
  ASSUME Typed, NEW p \in Sessions, session[p].at # "idle", Raise(p)
  PROVE  /\ session' \in [Sessions -> Commands] /\ \A q \in Sessions : Aware(q)'
         /\ Same(p) /\ Others(p)
         /\ \/ /\ Returns(p)
               /\ session'[p].at = "check" /\ session'[p].why = session[p].why
               /\ session'[p].back /\ session'[p].target = session[p].found
            \/ /\ ~Returns(p)
               /\ session'[p].at = "idle"
               /\ session'[p].outcome = "blocked" /\ session'[p].why = "gate"
<1>1. CASE Returns(p)
  <2> DEFINE returning == [session[p] EXCEPT !.at = "check", !.back = TRUE,
                                             !.target = session[p].found]
  <2>1. session[p] \in Commands
    BY DEF Typed
  <2>2. /\ returning \in Commands
        /\ returning.at = "check" /\ returning.why = session[p].why
        /\ returning.back /\ returning.target = session[p].found
    BY <2>1 DEF Commands, Places
  <2>3. session' = [session EXCEPT ![p] = returning]
    BY <1>1 DEF Raise, Returns, Typed
  <2>4. session' \in [Sessions -> Commands] /\ session'[p] = returning /\ Others(p)
    BY <2>2, <2>3 DEF Typed, Others
  <2>5. Same(p)
    BY <2>1, <2>4 DEF Same, Commands
  <2>6. \A q \in Sessions : Aware(q)'
    <3>1. Aware(p)
      BY DEF Typed
    <3>2. session'[p].kind # "none" /\ session'[p].service \in Services /\ session'[p].version # None
      BY <2>5, <3>1 DEF Aware, Same
    <3>3. session'[p].target # None /\ session'[p].back /\ session'[p].target = session'[p].found
      BY <1>1, <2>2, <2>4, <2>5 DEF Returns, Same
    <3>4. Aware(p)'
      BY <3>2, <3>3 DEF Aware
    <3>5. Others(p)
      BY <2>4
    <3>6. \A q \in Sessions \ {p} : Aware(q)'
      BY <3>5 DEF Typed, Aware, Others
    <3>7. QED
      BY <3>4, <3>6
  <2>7. QED
    BY <1>1, <2>2, <2>4, <2>5, <2>6
<1>2. CASE ~Returns(p)
  <2>1. End(p, "blocked", "gate")
    BY <1>2 DEF Raise, Returns
  <2>2. QED
    BY <1>2, <2>1, EndStep DEF Outcomes, Reasons
<1>3. QED
  BY <1>1, <1>2

-----------------------------------------------------------------------------
(* Type correctness.                                                        *)

LEMMA TypedNext ==
  ASSUME Typed, [Next]_vars
  PROVE  Typed'
<1>1. CASE \E v \in Versions : Unpack(v) \/ Verify(v)
  <2>1. dirs' \subseteq Names
    BY <1>1, NamesApart DEF Typed, Unpack, Verify
  <2>2. QED
    BY <1>1, <2>1 DEF Typed, Unpack, Verify, Aware
<1>2. ASSUME NEW p \in Sessions, NEW s \in Services, Rollback(p, s)
      PROVE  Typed'
  BY <1>2, BeginStep DEF Rollback, Typed
<1>3. ASSUME NEW p \in Sessions, NEW s \in Services, NEW v \in Versions, Activate(p, s, v)
      PROVE  Typed'
  BY <1>3, BeginStep, NamesApart DEF Activate
<1>4. ASSUME NEW p \in Sessions, Check(p) PROVE Typed'
  <2>1. CASE session[p].target \in dirs
    BY <1>4, <2>1, GotoStep DEF Check, Typed, Places
  <2>2. CASE session[p].target \notin dirs
    BY <1>4, <2>2, EndStep DEF Check, Typed, Outcomes, Reasons
  <2>3. QED
    BY <2>1, <2>2
<1>5. ASSUME NEW p \in Sessions, Unlink(p) PROVE Typed'
  BY <1>5, GotoStep DEF Unlink, Typed, Places
<1>6. ASSUME NEW p \in Sessions, Link(p) PROVE Typed'
  <2>1. CASE fresh = None
    <3>1. session[p].target \in Names \cup {None}
      BY DEF Typed, Commands
    <3>2. QED
      BY <1>6, <2>1, <3>1, GotoStep DEF Link, Typed, Places
  <2>2. CASE fresh # None
    BY <1>6, <2>2, EndStep DEF Link, Typed, Outcomes, Reasons
  <2>3. QED
    BY <2>1, <2>2
<1>7. ASSUME NEW p \in Sessions, Replace(p) PROVE Typed'
  <2>1. CASE fresh = None
    BY <1>7, <2>1, EndStep DEF Replace, Typed, Outcomes, Reasons
  <2>2. CASE fresh # None
    BY <1>7, <2>2, GotoStep DEF Replace, Typed, Places
  <2>3. QED
    BY <2>1, <2>2
<1>8. ASSUME NEW p \in Sessions, Restart(p) PROVE Typed'
  <2>1. session[p].service \in Services
    BY <1>8 DEF Restart, Typed, Aware
  <2>2. running' \in [Services -> Names \cup {None}]
    BY <1>8, <2>1 DEF Restart, Typed
  <2>3. session' \in [Sessions -> Commands] /\ \A q \in Sessions : Aware(q)'
    <3>1. CASE Goto(p, "ready")
      BY <1>8, <3>1, GotoStep DEF Restart, Places
    <3>2. CASE \E why \in Reasons : End(p, "blocked", why)
      BY <3>2, EndStep DEF Outcomes, Reasons
    <3>3. CASE Raise(p)
      BY <1>8, <3>3, RaiseStep DEF Restart
    <3>4. QED
      BY <1>8, <3>1, <3>2, <3>3 DEF Restart, Reasons
  <2>4. QED
    BY <1>8, <2>2, <2>3 DEF Restart, Typed
<1>9. ASSUME NEW p \in Sessions, Ready(p) PROVE Typed'
  <2>1. session' \in [Sessions -> Commands] /\ \A q \in Sessions : Aware(q)'
    BY <1>9, EndStep, RaiseStep DEF Ready, Outcomes, Reasons
  <2>2. QED
    BY <1>9, <2>1 DEF Ready, Typed
<1>10. ASSUME NEW p \in Sessions, Kill(p) PROVE Typed'
  BY <1>10, EndStep DEF Kill, Typed, Outcomes, Reasons
<1>11. ASSUME NEW s \in Services, Respawn(s) PROVE Typed'
  BY <1>11 DEF Respawn, Typed, Aware
<1>12. CASE UNCHANGED vars
  BY <1>12 DEF vars, Typed, Aware
<1>13. QED
  BY <1>1, <1>2, <1>3, <1>4, <1>5, <1>6, <1>7, <1>8, <1>9, <1>10, <1>11, <1>12 DEF Next

\* TypeOK holds for every number of versions, services, sessions and commands;
\* in particular a session under way always has a directory to switch to.
THEOREM TypeCorrect == Spec => []TypeOK
<1>1. Spec => []Typed
  BY TypedInit, TypedNext, PTL DEF Spec
<1>2. Typed => TypeOK
  BY DEF Typed, TypeOK, Aware, Commands, Places
<1>3. QED
  BY <1>1, <1>2, PTL

-----------------------------------------------------------------------------
(* Links lead to installed releases: whoever made `.current.new', its       *)
(* target was checked, and only directories of unpacked versions go away.   *)

Installed ==
    /\ current \in Versions => current \in dirs
    /\ fresh \in Versions => fresh \in dirs
    /\ \A p \in Sessions :
          session[p].at \in {"unlink", "link"} /\ session[p].target \in Versions
             => session[p].target \in dirs

LEMMA VersionsStay ==
  ASSUME Typed, [Next]_vars
  PROVE  \A v \in Versions : v \in dirs => v \in dirs'
BY NamesApart DEF Next, vars, Unpack, Verify, Rollback, Activate, Begin, Check, Unlink, Link,
   Replace, Restart, Ready, Kill, Respawn

LEMMA InstalledNext ==
  ASSUME Typed, Installed, [Next]_vars
  PROVE  Installed'
<1>0. \A v \in Versions : v \in dirs => v \in dirs'
  BY VersionsStay
<1>1. CASE \E v \in Versions : Unpack(v) \/ Verify(v)
  BY <1>0, <1>1 DEF Installed, Unpack, Verify
<1>2. ASSUME NEW p \in Sessions, NEW kind \in {"activate", "rollback"},
             NEW s \in Services, NEW v \in Names, Begin(p, kind, s, v)
      PROVE  Installed'
  <2>1. session'[p] = Started(kind, s, v) /\ Others(p)
    BY <1>2, BeginStep
  <2>2. session'[p].at = "check"
    BY <2>1 DEF Started, Idle
  <2>3. QED
    BY <1>2, <2>1, <2>2 DEF Begin, Installed, Others
<1>3. ASSUME NEW p \in Sessions, Check(p) PROVE Installed'
  <2>1. CASE session[p].target \in dirs
    BY <1>3, <2>1, GotoStep DEF Check, Installed, Places, Others
  <2>2. CASE session[p].target \notin dirs
    BY <1>3, <2>2, EndStep DEF Check, Installed, Others, Outcomes, Reasons
  <2>3. QED
    BY <2>1, <2>2
<1>4. ASSUME NEW p \in Sessions, Unlink(p) PROVE Installed'
  BY <1>4, NamesApart, GotoStep DEF Unlink, Installed, Places, Others, Versions
<1>5. ASSUME NEW p \in Sessions, Link(p) PROVE Installed'
  <2>1. CASE fresh = None
    BY <1>5, <2>1, GotoStep DEF Link, Installed, Places, Others
  <2>2. CASE fresh # None
    BY <1>5, <2>2, EndStep DEF Link, Installed, Others, Outcomes, Reasons
  <2>3. QED
    BY <2>1, <2>2
<1>6. ASSUME NEW p \in Sessions, Replace(p) PROVE Installed'
  <2>1. CASE fresh = None
    BY <1>6, <2>1, EndStep DEF Replace, Installed, Others, Outcomes, Reasons
  <2>2. CASE fresh # None
    BY <1>6, <2>2, GotoStep DEF Replace, Installed, Places, Others, Versions
  <2>3. QED
    BY <2>1, <2>2
<1>7. ASSUME NEW p \in Sessions, Restart(p) PROVE Installed'
  <2>1. session'[p].at \notin {"unlink", "link"} /\ Others(p)
    <3>1. CASE Goto(p, "ready")
      BY <1>7, <3>1, GotoStep DEF Restart, Places
    <3>2. CASE \E why \in Reasons : End(p, "blocked", why)
      BY <3>2, EndStep DEF Typed, Commands, Outcomes, Reasons
    <3>3. CASE Raise(p)
      BY <1>7, <3>3, RaiseStep DEF Restart, Typed, Commands
    <3>4. QED
      BY <1>7, <3>1, <3>2, <3>3 DEF Restart, Reasons
  <2>2. QED
    BY <1>7, <2>1 DEF Restart, Installed, Others
<1>8. ASSUME NEW p \in Sessions, Ready(p) PROVE Installed'
  <2>1. session'[p].at \notin {"unlink", "link"} /\ Others(p)
    BY <1>8, EndStep, RaiseStep DEF Ready, Typed, Commands, Outcomes, Reasons
  <2>2. QED
    BY <1>8, <2>1 DEF Ready, Installed, Others
<1>9. ASSUME NEW p \in Sessions, Kill(p) PROVE Installed'
  BY <1>9, EndStep DEF Kill, Installed, Others, Outcomes, Reasons
<1>10. ASSUME NEW s \in Services, Respawn(s) PROVE Installed'
  BY <1>10 DEF Respawn, Installed
<1>11. CASE UNCHANGED vars
  BY <1>11 DEF vars, Installed
<1>12. ASSUME NEW p \in Sessions, NEW s \in Services,
              Rollback(p, s) \/ \E v \in Versions : Activate(p, s, v)
       PROVE  Installed'
  BY <1>2, <1>12, NamesApart DEF Rollback, Activate, Typed
<1>13. QED
  BY <1>1, <1>3, <1>4, <1>5, <1>6, <1>7, <1>8, <1>9, <1>10, <1>11, <1>12 DEF Next

\* `current' never disappears once it is there, and a release it leads to is
\* installed, whatever sessions race or are killed.
THEOREM CurrentIsKept == Spec => CurrentStays
<1>1. Init => Installed
  BY NamesApart DEF Init, Installed, Idle, Versions
<1>2. Spec => [](Typed /\ Installed)
  BY <1>1, TypedInit, TypedNext, InstalledNext, PTL DEF Spec
<1>3. ASSUME Typed, Installed, [Next]_vars
      PROVE  [/\ current # None => current' # None
              /\ current' \in Versions => current' \in dirs']_vars
  <2>1. current # None => current' # None
    BY <1>3 DEF Next, vars, Unpack, Verify, Rollback, Activate, Begin, Check, Unlink, Link,
       Replace, Restart, Ready, Kill, Respawn
  <2>2. current' \in Versions => current' \in dirs'
    BY <1>3, InstalledNext DEF Installed
  <2>3. QED
    BY <2>1, <2>2
<1>4. QED
  BY <1>2, <1>3, PTL DEF Spec, CurrentStays

-----------------------------------------------------------------------------
(* A session that meets no other one.  It finds the link of its own target  *)
(* and nobody else's at every step, so its verdict is about itself; and two *)
(* sessions under way have always both met another.                         *)

Alone(p) == session[p].at # "idle" /\ p \notin overlapped

Undisturbed(p) ==
    Alone(p) =>
        /\ session[p].at = "link" => fresh = None
        /\ session[p].at = "replace" => fresh = session[p].target
        /\ session[p].at \in {"check", "unlink", "link", "replace"} /\ ~session[p].back
              => current = session[p].found
        /\ session[p].at \in {"restart", "ready"} => current = session[p].target
        /\ session[p].at = "ready" =>
              ~session[p].back /\ running[session[p].service] \in {None, current}

Undisturbing ==
    /\ \A p, q \in Sessions : p # q /\ p \in Busy => (q \in Busy => p \in overlapped)
    /\ \A p \in Sessions : Undisturbed(p)
    /\ \A p \in Sessions : session[p].at # "idle" => session[p].why = "none"
    /\ LeftoverHarmless

\* What a step of session p keeps for the others: either they have met p, or
\* nobody else is under way.
LEMMA OthersUndisturbed ==
  ASSUME Undisturbing, NEW p \in Sessions, session[p].at # "idle", Others(p),
         UNCHANGED overlapped,
         session'[p].at = "idle" \/ session'[p].why = session[p].why,
         session'[p].at = "idle" /\ session'[p].why = "collision" => p \in overlapped,
         Undisturbed(p)'
  PROVE  Undisturbing'
<1>1. \A r, q \in Sessions : r # q /\ r \in Busy' => (q \in Busy' => r \in overlapped')
  BY DEF Undisturbing, Others, Busy
<1>2. \A q \in Sessions \ {p} : Undisturbed(q)'
  BY DEF Undisturbing, Others, Busy, Undisturbed, Alone
<1>3. \A q \in Sessions : session'[q].at # "idle" => session'[q].why = "none"
  BY DEF Undisturbing, Others
<1>4. LeftoverHarmless'
  BY <1>3 DEF Undisturbing, Others, LeftoverHarmless
<1>5. QED
  BY <1>1, <1>2, <1>3, <1>4 DEF Undisturbing

LEMMA BeginUndisturbed ==
  ASSUME Typed, Undisturbing, NEW p \in Sessions, NEW kind \in {"activate", "rollback"},
         NEW s \in Services, NEW v \in Names, Begin(p, kind, s, v)
  PROVE  Undisturbing'
<1>1. session'[p] = Started(kind, s, v) /\ Others(p)
  BY BeginStep
<1>2. /\ session'[p].at = "check" /\ session'[p].found = current /\ ~session'[p].back
      /\ session'[p].why = "none"
  BY <1>1 DEF Started, Idle
<1>3. p \notin Busy /\ Busy' = Busy \cup {p}
  BY <1>1, <1>2 DEF Begin, Busy, Others
<1>4. CASE Busy = {}
  <2>1. Undisturbed(p)'
    BY <1>2 DEF Begin, Undisturbed
  <2>2. \A q \in Sessions \ {p} : Undisturbed(q)'
    BY <1>1, <1>4 DEF Busy, Others, Undisturbed, Alone
  <2>3. \A r, q \in Sessions : r # q /\ r \in Busy' => (q \in Busy' => r \in overlapped')
    BY <1>3, <1>4
  <2>4. LeftoverHarmless'
    BY <1>1, <1>2, <1>4 DEF Undisturbing, Begin, LeftoverHarmless, Others
  <2>5. QED
    BY <1>1, <1>2, <2>1, <2>2, <2>3, <2>4 DEF Undisturbing, Others
<1>5. CASE Busy # {}
  <2>1. overlapped' = overlapped \cup Busy \cup {p}
    BY <1>5 DEF Begin
  <2>2. Busy' \subseteq overlapped'
    BY <1>3, <2>1
  <2>3. \A q \in Sessions : Undisturbed(q)'
    BY <2>2 DEF Busy, Undisturbed, Alone
  <2>4. LeftoverHarmless'
    BY <1>1, <1>2, <2>1 DEF Undisturbing, LeftoverHarmless, Others
  <2>5. QED
    BY <1>1, <1>2, <2>2, <2>3, <2>4 DEF Undisturbing, Others
<1>6. QED
  BY <1>4, <1>5

LEMMA UndisturbedNext ==
  ASSUME Typed, Undisturbing, [Next]_vars
  PROVE  Undisturbing'
<1>1. CASE (\E v \in Versions : Unpack(v) \/ Verify(v)) \/ UNCHANGED vars
  BY <1>1 DEF Unpack, Verify, vars, Undisturbing, Busy, Undisturbed, Alone, LeftoverHarmless
<1>2. ASSUME NEW p \in Sessions, NEW s \in Services,
             Rollback(p, s) \/ \E v \in Versions : Activate(p, s, v)
      PROVE  Undisturbing'
  BY <1>2, NamesApart, BeginUndisturbed DEF Rollback, Activate, Typed
<1>3. ASSUME NEW p \in Sessions, Check(p) PROVE Undisturbing'
  <2>1. CASE session[p].target \in dirs
    <3>1. Undisturbed(p)'
      BY <1>3, <2>1, GotoStep DEF Check, Undisturbing, Undisturbed, Alone, Same, Places
    <3>2. QED
      BY <1>3, <2>1, <3>1, GotoStep, OthersUndisturbed DEF Check, Places
  <2>2. CASE session[p].target \notin dirs
    <3>1. Undisturbed(p)'
      BY <1>3, <2>2, EndStep DEF Check, Undisturbed, Alone, Outcomes, Reasons
    <3>2. QED
      BY <1>3, <2>2, <3>1, EndStep, OthersUndisturbed DEF Check, Outcomes, Reasons
  <2>3. QED
    BY <2>1, <2>2
<1>4. ASSUME NEW p \in Sessions, Unlink(p) PROVE Undisturbing'
  <2>1. Undisturbed(p)'
    BY <1>4, GotoStep DEF Unlink, Undisturbing, Undisturbed, Alone, Same, Places
  <2>2. QED
    BY <1>4, <2>1, GotoStep, OthersUndisturbed DEF Unlink, Places
<1>5. ASSUME NEW p \in Sessions, Link(p) PROVE Undisturbing'
  <2>1. CASE fresh = None
    <3>1. Undisturbed(p)'
      BY <1>5, <2>1, GotoStep DEF Link, Undisturbing, Undisturbed, Alone, Same, Places
    <3>2. QED
      BY <1>5, <2>1, <3>1, GotoStep, OthersUndisturbed DEF Link, Places
  <2>2. CASE fresh # None
    <3>1. Undisturbed(p)'
      BY <1>5, <2>2, EndStep DEF Link, Undisturbed, Alone, Outcomes, Reasons
    <3>2. p \in overlapped
      BY <1>5, <2>2 DEF Link, Undisturbing, Undisturbed, Alone
    <3>3. QED
      BY <1>5, <2>2, <3>1, <3>2, EndStep, OthersUndisturbed DEF Link, Outcomes, Reasons
  <2>3. QED
    BY <2>1, <2>2
<1>6. ASSUME NEW p \in Sessions, Replace(p) PROVE Undisturbing'
  <2>1. CASE fresh = None
    <3>1. Undisturbed(p)'
      BY <1>6, <2>1, EndStep DEF Replace, Undisturbed, Alone, Outcomes, Reasons
    <3>2. p \in overlapped
      BY <1>6, <2>1 DEF Replace, Undisturbing, Undisturbed, Alone, Typed, Aware
    <3>3. QED
      BY <1>6, <2>1, <3>1, <3>2, EndStep, OthersUndisturbed DEF Replace, Outcomes, Reasons
  <2>2. CASE fresh # None
    <3>1. Undisturbed(p)'
      BY <1>6, <2>2, GotoStep DEF Replace, Undisturbing, Undisturbed, Alone, Same, Places
    <3>2. QED
      BY <1>6, <2>2, <3>1, GotoStep, OthersUndisturbed DEF Replace, Places
  <2>3. QED
    BY <2>1, <2>2
<1>7. ASSUME NEW p \in Sessions, session[p].at # "idle", Raise(p), UNCHANGED overlapped
      PROVE  Undisturbing'
  <2>1. Undisturbed(p)'
    BY <1>7, RaiseStep DEF Undisturbed, Alone
  <2>2. QED
    BY <1>7, <2>1, RaiseStep, OthersUndisturbed
<1>8. ASSUME NEW p \in Sessions, Restart(p) PROVE Undisturbing'
  <2>1. CASE running' = [running EXCEPT ![session[p].service] = current] /\ Goto(p, "ready")
              /\ ~session[p].back
    <3>1. running'[session[p].service] = current
      BY <1>8, <2>1 DEF Typed, Aware, Restart
    <3>2. Undisturbed(p)'
      BY <1>8, <2>1, <3>1, GotoStep DEF Restart, Undisturbing, Undisturbed, Alone, Same, Places
    <3>3. QED
      BY <1>8, <2>1, <3>2, GotoStep, OthersUndisturbed DEF Restart, Places
  <2>2. ASSUME NEW why \in {"gate", "error"}, End(p, "blocked", why)
        PROVE  Undisturbing'
    <3>1. session'[p].at = "idle" /\ session'[p].why # "collision" /\ Others(p)
      BY <2>2, EndStep DEF Outcomes, Reasons
    <3>2. Undisturbed(p)'
      BY <3>1 DEF Undisturbed, Alone
    <3>3. QED
      BY <1>8, <3>1, <3>2, OthersUndisturbed DEF Restart
  <2>3. CASE Raise(p)
    BY <1>7, <1>8, <2>3 DEF Restart
  <2>4. QED
    BY <1>8, <2>1, <2>2, <2>3 DEF Restart
<1>9. ASSUME NEW p \in Sessions, Ready(p) PROVE Undisturbing'
  <2>1. CASE End(p, "done", "none") \/ \E outcome \in Outcomes : End(p, outcome, "error")
    <3>1. Undisturbed(p)'
      BY <2>1, EndStep DEF Undisturbed, Alone, Outcomes, Reasons
    <3>2. QED
      BY <1>9, <2>1, <3>1, EndStep, OthersUndisturbed DEF Ready, Outcomes, Reasons
  <2>2. CASE Raise(p)
    BY <1>7, <1>9, <2>2 DEF Ready
  <2>3. QED
    BY <1>9, <2>1, <2>2 DEF Ready, Outcomes
<1>10. ASSUME NEW p \in Sessions, Kill(p) PROVE Undisturbing'
  <2>1. Undisturbed(p)'
    BY <1>10, EndStep DEF Kill, Undisturbed, Alone, Outcomes, Reasons
  <2>2. QED
    BY <1>10, <2>1, EndStep, OthersUndisturbed DEF Kill, Busy, Outcomes, Reasons
<1>11. ASSUME NEW s \in Services, Respawn(s) PROVE Undisturbing'
  <2>1. \A r \in Services : running'[r] \in {running[r], None, current}
    BY <1>11 DEF Respawn, Typed
  <2>2. \A q \in Sessions : Undisturbed(q)'
    BY <1>11, <2>1 DEF Respawn, Undisturbing, Undisturbed, Alone, Typed, Aware
  <2>3. QED
    BY <1>11, <2>2 DEF Respawn, Undisturbing, Busy, LeftoverHarmless
<1>12. QED
  BY <1>1, <1>2, <1>3, <1>4, <1>5, <1>6, <1>8, <1>9, <1>10, <1>11 DEF Next

LEMMA UndisturbedAlways == Spec => [](Typed /\ Undisturbing)
<1>1. Init => Undisturbing
  BY DEF Init, Idle, Undisturbing, Undisturbed, Alone, Busy, LeftoverHarmless
<1>2. QED
  BY <1>1, TypedInit, TypedNext, UndisturbedNext, PTL DEF Spec

\* What a killed session leaves behind stops no later one.
THEOREM LeftoversAreHarmless == Spec => []LeftoverHarmless
<1>1. Undisturbing => LeftoverHarmless
  BY DEF Undisturbing
<1>2. QED
  BY <1>1, UndisturbedAlways, PTL

\* What VerdictHolds says of the end of p's command.
Verdict(p) ==
    /\ session'[p].outcome = "done" =>
          current' = session[p].version /\ running'[session[p].service] = current'
    /\ session'[p].outcome \in {"blocked", "raised"} /\ session[p].kind = "activate"
         /\ session[p].found \in dirs =>
            current' = IF session'[p].why = "gate" \/ session[p].back
                       THEN session[p].found ELSE session[p].version

LEMMA VerdictStep ==
  ASSUME Typed, Undisturbing, [Next]_vars, NEW p \in Sessions,
         p \in Busy, session'[p].at = "idle", p \notin overlapped
  PROVE  Verdict(p)
<1>1. session[p].at # "idle" /\ Undisturbed(p) /\ Alone(p) /\ Aware(p) /\ None \notin dirs
  BY NamesApart DEF Busy, Undisturbing, Alone, Typed
<1>2. Check(p) \/ Unlink(p) \/ Link(p) \/ Replace(p) \/ Restart(p) \/ Ready(p) \/ Kill(p)
  <2>1. ASSUME NEW q \in Sessions, q # p,
               \/ Check(q) \/ Unlink(q) \/ Link(q) \/ Replace(q) \/ Restart(q) \/ Ready(q) \/ Kill(q)
               \/ \E s \in Services : Rollback(q, s) \/ \E v \in Versions : Activate(q, s, v)
        PROVE  session'[p] = session[p]
    BY <2>1 DEF Check, Unlink, Link, Replace, Restart, Ready, Kill, Rollback, Activate, Begin,
       Goto, End, Raise, Typed
  <2>2. ASSUME NEW s \in Services, Rollback(p, s) \/ \E v \in Versions : Activate(p, s, v)
        PROVE  FALSE
    BY <1>1, <2>2 DEF Rollback, Activate, Begin
  <2>3. QED
    BY <1>1, <2>1, <2>2 DEF Next, vars, Unpack, Verify, Respawn
<1>3. CASE Check(p)
  <2>1. session[p].target \notin dirs
    BY <1>1, <1>3, GotoStep DEF Check, Places
  <2>2. session'[p].outcome = "blocked" /\ session'[p].why = "gate" /\ current' = current
    BY <1>3, <2>1, EndStep DEF Check, Outcomes, Reasons
  <2>3. QED
    BY <1>1, <1>3, <2>1, <2>2 DEF Check, Undisturbed, Aware, Verdict
<1>4. CASE Unlink(p)
  BY <1>1, <1>4, GotoStep DEF Unlink, Places
<1>5. CASE Link(p)
  <2>1. fresh = None
    BY <1>1, <1>5 DEF Link, Undisturbed
  <2>2. QED
    BY <1>1, <1>5, <2>1, GotoStep DEF Link, Places
<1>6. CASE Replace(p)
  <2>1. fresh # None
    BY <1>1, <1>6 DEF Replace, Undisturbed, Aware
  <2>2. QED
    BY <1>1, <1>6, <2>1, GotoStep DEF Replace, Places
<1>7. CASE Restart(p)
  <2>1. current' = current /\ current = session[p].target
    BY <1>1, <1>7 DEF Restart, Undisturbed
  <2>2. current = IF session[p].back THEN session[p].found ELSE session[p].version
    BY <1>1, <2>1 DEF Aware
  <2>3. CASE End(p, "blocked", "gate") /\ session[p].back
    BY <2>1, <2>2, <2>3, EndStep DEF Outcomes, Reasons, Verdict
  <2>4. CASE End(p, "blocked", "error")
    <3>1. session'[p].outcome = "blocked" /\ session'[p].why = "error"
      BY <2>4, EndStep DEF Outcomes, Reasons
    <3>2. QED
      BY <2>1, <2>2, <3>1 DEF Verdict
  <2>5. CASE Raise(p)
    BY <1>1, <2>1, <2>2, <2>5, RaiseStep DEF Returns, Verdict
  <2>6. CASE Goto(p, "ready")
    BY <1>1, <2>6, GotoStep DEF Places
  <2>7. QED
    BY <1>7, <2>3, <2>4, <2>5, <2>6 DEF Restart
<1>8. CASE Ready(p)
  <2>1. /\ ~session[p].back /\ current' = current /\ running' = running
        /\ current = session[p].version /\ running[session[p].service] \in {None, current}
    BY <1>1, <1>8 DEF Ready, Undisturbed, Aware
  <2>2. CASE running[session[p].service] # None /\ End(p, "done", "none")
    <3>1. session'[p].outcome = "done"
      BY <2>2, EndStep DEF Outcomes, Reasons
    <3>2. QED
      BY <2>1, <2>2, <3>1 DEF Verdict
  <2>3. CASE Raise(p)
    BY <1>1, <2>1, <2>3, RaiseStep DEF Returns, Verdict
  <2>4. ASSUME NEW outcome \in {"blocked", "raised"}, End(p, outcome, "error")
        PROVE  Verdict(p)
    <3>1. session'[p].outcome # "done" /\ session'[p].why = "error"
      BY <2>4, EndStep DEF Outcomes, Reasons
    <3>2. QED
      BY <2>1, <3>1 DEF Verdict
  <2>5. QED
    BY <1>8, <2>2, <2>3, <2>4 DEF Ready
<1>9. CASE Kill(p)
  BY <1>9, EndStep DEF Kill, Outcomes, Reasons, Verdict
<1>10. QED
  BY <1>2, <1>3, <1>4, <1>5, <1>6, <1>7, <1>8, <1>9

\* What a command that met no other one leaves behind, whatever was killed
\* before it and however services end and come back meanwhile.
THEOREM VerdictsHold == Spec => VerdictHolds
<1>1. ASSUME Typed, Undisturbing, [Next]_vars
      PROVE  [\A p \in Sessions :
                (p \in Busy /\ session'[p].at = "idle" /\ p \notin overlapped) => Verdict(p)]_vars
  BY <1>1, VerdictStep
<1>2. QED
  BY <1>1, UndisturbedAlways, PTL DEF Spec, VerdictHolds, Verdict
=============================================================================
