---------------------------- MODULE SessionsProofs ----------------------------
(***************************************************************************)
(* EndedStaysEnded, EndsInTime and LastsAsSaid hold of Sessions for any    *)
(* browsers, requests, modes, lists, delays and bounds.                    *)
(***************************************************************************)
EXTENDS Sessions, FiniteSetTheorems, TLAPS

ForceTyped == mode \in Modes /\ now \in Nat /\ opened \in Nat /\ asks \in Nat

(* A session has an id of its own, which nothing ended; in the mode of the *)
(* key it is bound to the key its holder showed; its expiry is between     *)
(* what its last use promises and what its last use allows.                *)
RowFields == {"id", "source", "reach", "under", "created", "expires", "used", "shown"}
Spared(s) == Min({s.used + Idle - Slack, s.created + Lifetime[s.source] - LastHour})
Sound(s) ==
  /\ DOMAIN s = RowFields /\ s.source \in Modes
  /\ s.created \in Nat /\ s.used \in Nat /\ s.expires \in Nat
  /\ s.id \in 1..opened /\ s.id \notin ended
  /\ s.source = "apikey" => s.under = <<"key", s.shown>>
  /\ s.used <= now /\ s.expires <= s.used + Idle /\ s.expires >= Spared(s)
Table ==
  /\ ended \subseteq 1..opened
  /\ \A s \in sessions : Sound(s)
  /\ \A s, t \in sessions : s.id = t.id => s = t

(* Where a request is goes with what it asks and with the mode; what it    *)
(* opens by the key is bound to the key that was shown.                    *)
Fields ==
  {"at", "what", "by", "id", "typed", "attempt", "held", "source", "reach", "under", "shown",
   "no", "read", "signedIn", "gives", "clears"}
Phases(q) ==
  /\ q.at = "login" => q.what = "login"
  /\ q.at = "key" => q.what = "key"
  /\ q.at \in {"callback", "exchanging"} => q.what = "callback"
  /\ q.at \in {"hashing", "setting", "rotate", "ending", "opening"} /\ q.what = "password" => mode = "forms"
  /\ q.at = "hashing" => q.what \in {"login", "password", "rotate", "withdraw"}
  /\ q.at = "setting" => q.what = "password"
  /\ q.at = "rebinding" => q.what = "rotate"
  /\ q.at \in {"rotate", "ending"} => q.what \in {"rotate", "password"}
  /\ q.at = "opening" => q.what \in {"login", "key", "password", "callback"}
  /\ q.what = "start" => q.at \in {"start", "answering"}
Fits(q) ==
  /\ DOMAIN q = Fields
  /\ q.source = mode /\ Routed(q.what) /\ Phases(q)
  /\ q.what = "key" /\ q.at \in {"key", "opening"} => q.shown = q.typed.key
  /\ q.what = "key" /\ q.at = "opening" => q.under = <<"key", q.shown>>
UnderWay ==
  /\ DOMAIN req = Requests
  /\ \A r \in Requests : ~ At(r, "idle") => Fits(req[r])

(* A sign-in begun has a number of its time, and is later than those its   *)
(* browser sent when it asked for it.                                      *)
Begun(b) ==
  /\ IsFiniteSet(given[b]) /\ attempts[b] \subseteq given[b]
  /\ \A a \in given[b] :
       a.no \in Nat /\ a.no <= asks /\ a.expires \in Nat /\ a.expires <= now + Flow
Carries(q) ==
  /\ q.by \in Browsers /\ q.no \in Nat /\ q.no <= asks
  /\ q.what = "start" =>
       q.held \subseteq given[q.by] /\ \A a \in q.held : a.no < q.no
  /\ q.what = "start" /\ q.at = "answering" =>
       /\ q.attempt.no = q.no /\ q.attempt.expires \in Nat /\ q.attempt.expires <= now + Flow
       /\ \A a \in q.held : a.expires <= q.attempt.expires
Carried ==
  /\ DOMAIN given = Browsers /\ DOMAIN attempts = Browsers
  /\ \A b \in Browsers : Begun(b)
  /\ \A r \in Requests : ~ At(r, "idle") => Carries(req[r])

Inv == ForceTyped /\ Table /\ UnderWay
IInv == Inv /\ Carried /\ AttemptsLast

-----------------------------------------------------------------------------
(* The least of two.                                                       *)
LEMMA MinOfTwo ==
  ASSUME NEW a \in Int, NEW b \in Int
  PROVE  Min({a, b}) = IF a <= b THEN a ELSE b
<1>1. ASSUME NEW x \in {a, b}, \A y \in {a, b} : x <= y
      PROVE  x = IF a <= b THEN a ELSE b
  BY <1>1
<1>2. \E x \in {a, b} : \A y \in {a, b} : x <= y
  OBVIOUS
<1> QED BY <1>1, <1>2 DEF Min

-----------------------------------------------------------------------------
(* A handler moves its own request, in the mode it was asked in.           *)
Moves(r) ==
  /\ mode' = mode /\ DOMAIN req' = Requests
  /\ \A t \in Requests \ {r} : req'[t] = req[t]
  /\ ~ At(r, "idle") /\ Fits(req[r])'

LEMMA MovesKeep ==
  ASSUME UnderWay, NEW r \in Requests, Moves(r)
  PROVE  UnderWay'
BY DEF Moves, UnderWay, At, Fits, Phases, Routed

LEMMA GoesOn ==
  ASSUME UnderWay, NEW r \in Requests, req[r].at # "idle"
  PROVE  DOMAIN req = Requests /\ Fits(req[r])
BY DEF UnderWay, At

(* Those that are let through, renewed, refused or asked for nothing more. *)
LEMMA IdentifyMoves ==
  ASSUME UnderWay, NEW r \in Requests, Identify(r)
  PROVE  Moves(r)
<1>1. DOMAIN req = Requests /\ Fits(req[r]) /\ req[r].at = "asked" /\ mode' = mode
  BY GoesOn DEF Identify, At, Reads
<1>2. CASE Goes(r, "handling") \/ Goes(r, "answering")
  BY <1>1, <1>2 DEF Goes, Moves, At, Fits, Phases, Routed, Fields
<1>3. ASSUME NEW s, NEW step \in {"renewing", "handling"},
             req' = [req EXCEPT ![r].at = step, ![r].read = s.expires, ![r].signedIn = s.created]
      PROVE  Moves(r)
  BY <1>1, <1>3 DEF Moves, At, Fits, Phases, Routed, Fields
<1> QED BY <1>2, <1>3 DEF Identify
LEMMA RenewMoves ==
  ASSUME UnderWay, NEW r \in Requests, Renew(r)
  PROVE  Moves(r)
<1>1. DOMAIN req = Requests /\ Fits(req[r]) /\ req[r].at = "renewing" /\ mode' = mode
  BY GoesOn DEF Renew, At, Reads
<1>2. ASSUME NEW g, req' = [req EXCEPT ![r].at = "handling", ![r].gives = g] PROVE Moves(r)
  BY <1>1, <1>2 DEF Moves, At, Fits, Phases, Routed, Fields
<1>3. CASE Goes(r, "handling")
  BY <1>1, <1>3 DEF Goes, Moves, At, Fits, Phases, Routed, Fields
<1> QED BY <1>2, <1>3 DEF Renew
LEMMA SessionsMove ==
  ASSUME UnderWay, NEW r \in Requests,
         RenewFails(r) \/ Use(r) \/ EndAll(r) \/ EndOne(r) \/ Logout(r)
  PROVE  Moves(r)
<1>1. DOMAIN req = Requests /\ Fits(req[r]) /\ req[r].at \in {"renewing", "handling"} /\ mode' = mode
  BY GoesOn DEF RenewFails, Use, EndAll, EndOne, Logout, At, Reads
<1>2. CASE Goes(r, "handling")
  BY <1>1, <1>2 DEF Goes, Moves, At, Fits, Phases, Routed, Fields
<1>3. ASSUME req[r].at = "handling", req[r].what \in {"use", "everywhere", "end", "logout"},
             NEW c, req' = [req EXCEPT ![r].at = "answering", ![r].clears = c] \/ Goes(r, "answering")
      PROVE  Moves(r)
  BY <1>1, <1>3 DEF Goes, Moves, At, Fits, Phases, Routed, Fields
<1> QED BY <1>2, <1>3 DEF RenewFails, Use, EndAll, EndOne, Logout, At

(* Those that prove who asks, and change what is in force.                 *)
LEMMA ProofsMove ==
  ASSUME UnderWay, NEW r \in Requests,
         ReadHash(r) \/ Hashed(r) \/ Prove(r) \/ NoSuchRoute(r) \/ SetPassword(r)
  PROVE  Moves(r)
<1> USE DEF UnderWay, Moves, At, Goes, Reads, Fits, Phases, Routed, Fields, counts
<1>1. CASE ReadHash(r) BY <1>1 DEF ReadHash, Proves
<1>2. CASE Hashed(r) BY <1>2 DEF Hashed, Next1
<1>3. CASE Prove(r) BY <1>3 DEF Prove, Proves
<1>4. CASE NoSuchRoute(r) BY <1>4 DEF NoSuchRoute
<1>5. CASE SetPassword(r) BY <1>5 DEF SetPassword
<1> QED BY <1>1, <1>2, <1>3, <1>4, <1>5
LEMMA KeysMove ==
  ASSUME UnderWay, NEW r \in Requests,
         Rotate(r) \/ Rebind(r) \/ EndKeySessions(r) \/ Withdraw(r)
  PROVE  Moves(r)
<1> USE DEF UnderWay, Moves, At, Goes, Reads, Fits, Phases, Routed, Fields, counts
<1>1. CASE Rotate(r) BY <1>1 DEF Rotate
<1>2. CASE Rebind(r)
  <2>1. DOMAIN req = Requests /\ Fits(req[r]) /\ req[r].at = "rebinding" /\ mode' = mode /\ Goes(r, "ending")
    BY <1>2, GoesOn DEF Rebind
  <2> QED BY <2>1
<1>3. CASE EndKeySessions(r) BY <1>3 DEF EndKeySessions
<1>4. CASE Withdraw(r) BY <1>4 DEF Withdraw
<1> QED BY <1>1, <1>2, <1>3, <1>4
LEMMA OpeningsMove ==
  ASSUME UnderWay, NEW r \in Requests,
         ShowKey(r) \/ Start(r) \/ Callback(r) \/ Finish(r) \/ Open(r)
  PROVE  Moves(r)
<1> USE DEF UnderWay, Moves, At, Goes, Reads, Fits, Phases, Routed, Fields, counts, inForce
<1>1. CASE ShowKey(r) BY <1>1 DEF ShowKey, Under
<1>2. CASE Start(r) BY <1>2 DEF Start
<1>3. CASE Callback(r) BY <1>3 DEF Callback
<1>4. CASE Finish(r) BY <1>4 DEF Finish
<1>5. CASE Open(r) BY <1>5 DEF Open
<1> QED BY <1>1, <1>2, <1>3, <1>4, <1>5

LEMMA HandlesMove ==
  ASSUME UnderWay, NEW r \in Requests, Handles(r)
  PROVE  Moves(r)
BY IdentifyMoves, RenewMoves, SessionsMove, ProofsMove, KeysMove, OpeningsMove DEF Handles

(* Every step keeps the requests fitting.                                  *)
LEMMA UnderWayKept ==
  ASSUME UnderWay, [Next]_vars
  PROVE  UnderWay'
<1> USE DEF UnderWay, At, Fits, Phases, Routed, Idling
<1>1. ASSUME NEW r \in Requests, NEW b \in Browsers, NEW what \in Asked, Ask(r, b, what)
      PROVE  UnderWay'
  BY <1>1 DEF Ask, inForce, Fields, Public
<1>2. ASSUME NEW r \in Requests, Handles(r) PROVE UnderWay'
  BY <1>2, HandlesMove, MovesKeep
<1>3. ASSUME NEW r \in Requests, Answer(r) \/ HangsUp(r) PROVE UnderWay'
  BY <1>3 DEF Answer, HangsUp, inForce
<1>4. CASE ResetAccount \/ Purge \/ TimePasses \/ UNCHANGED vars
  BY <1>4 DEF ResetAccount, Purge, TimePasses, vars, inForce
<1>5. CASE Restart
  BY <1>5 DEF Restart
<1> QED BY <1>1, <1>2, <1>3, <1>4, <1>5 DEF Next

-----------------------------------------------------------------------------
(* Sessions ended, one written in the place of what was read of it, one    *)
(* opened: the table keeps what it rests on.                               *)
LEMMA EndedKept ==
  ASSUME Table, NEW gone \in SUBSET sessions, Ends(gone), opened' = opened, now' = now
  PROVE  Table'
BY DEF Table, Sound, Spared, Ends

LEMMA PutKept ==
  ASSUME Table, NEW s \in sessions, NEW t, t.id = s.id, Put(t), Sound(t)',
         opened' = opened, now' = now, ended' = ended
  PROVE  Table'
BY DEF Table, Sound, Spared, Put

LEMMA SameKept ==
  ASSUME Table, sessions' \subseteq sessions, opened' = opened, now' = now, ended' = ended
  PROVE  Table'
BY DEF Table, Sound, Spared

LEMMA TimeKept ==
  ASSUME Table, ForceTyped, TimePasses
  PROVE  Table'
BY DEF Table, Sound, Spared, TimePasses, ForceTyped

(* What is promised by a use, and by an expiry moved by one.               *)
LEMMA SparedIs ==
  ASSUME Delays, NEW used \in Nat, NEW created \in Nat, NEW m \in Modes
  PROVE  /\ Min({used + Idle - Slack, created + Lifetime[m] - LastHour}) =
              IF used + Idle - Slack <= created + Lifetime[m] - LastHour
              THEN used + Idle - Slack ELSE created + Lifetime[m] - LastHour
         /\ Min({used + Idle, created + Lifetime[m]}) =
              IF used + Idle <= created + Lifetime[m] THEN used + Idle ELSE created + Lifetime[m]
         /\ Min({Idle, Lifetime[m]}) = IF Idle <= Lifetime[m] THEN Idle ELSE Lifetime[m]
<1>1. Idle \in Nat /\ Slack \in Nat /\ LastHour \in Nat /\ Lifetime[m] \in Nat
  BY DEF Delays
<1> QED BY <1>1, MinOfTwo

LEMMA UsedNow ==
  ASSUME Delays, ForceTyped, NEW s, Sound(s), Live(s), ~ Due(s)
  PROVE  Sound([s EXCEPT !.used = now])
<1> DEFINE t == [s EXCEPT !.used = now]
<1>1. DOMAIN t = RowFields /\ t.used = now /\ t.id = s.id /\ t.source = s.source /\ t.under = s.under
      /\ t.shown = s.shown /\ t.created = s.created /\ t.expires = s.expires
  BY DEF Sound, RowFields
<1>2. Spared(t) = Min({now + Idle - Slack, s.created + Lifetime[s.source] - LastHour})
  BY <1>1 DEF Spared
<1>3. s.expires >= Spared(t)
  <2>1. now \in Nat /\ s.created \in Nat /\ s.expires \in Nat /\ s.source \in Modes
    BY DEF Sound, ForceTyped
  <2>2. Idle \in Nat /\ Slack \in Nat /\ LastHour \in Nat /\ Lifetime[s.source] \in Nat
    BY <2>1 DEF Delays
  <2>3. s.expires >= Min({now + Idle - Slack, s.created + Lifetime[s.source] - LastHour})
    BY <2>1, <2>2, SparedIs, MinOfTwo DEF Due
  <2> QED BY <1>2, <2>3
<1>4. s.expires <= now + Idle
  BY DEF Sound, ForceTyped, Delays
<1> QED BY <1>1, <1>3, <1>4 DEF Sound, ForceTyped

LEMMA RenewedNow ==
  ASSUME Delays, ForceTyped, NEW s, Sound(s)
  PROVE  Sound([s EXCEPT !.expires = RenewedTo(s), !.used = now])
<1> DEFINE t == [s EXCEPT !.expires = RenewedTo(s), !.used = now]
<1>1. DOMAIN t = RowFields /\ t.used = now /\ t.id = s.id /\ t.source = s.source /\ t.under = s.under
      /\ t.shown = s.shown /\ t.created = s.created /\ t.expires = RenewedTo(s)
  BY DEF Sound, RowFields
<1>2. Spared(t) = Min({now + Idle - Slack, s.created + Lifetime[s.source] - LastHour})
  BY <1>1 DEF Spared
<1>3. RenewedTo(s) \in Nat /\ RenewedTo(s) >= Spared(t) /\ RenewedTo(s) <= now + Idle
  <2>1. now \in Nat /\ s.created \in Nat /\ s.source \in Modes
    BY DEF Sound, ForceTyped
  <2>2. Idle \in Nat /\ Slack \in Nat /\ LastHour \in Nat /\ Lifetime[s.source] \in Nat /\ Slack <= Idle
    BY <2>1 DEF Delays
  <2>3. RenewedTo(s) = IF now + Idle <= s.created + Lifetime[s.source]
                       THEN now + Idle ELSE s.created + Lifetime[s.source]
    BY <2>1, <2>2, SparedIs DEF RenewedTo
  <2>4. Spared(t) = IF now + Idle - Slack <= s.created + Lifetime[s.source] - LastHour
                    THEN now + Idle - Slack ELSE s.created + Lifetime[s.source] - LastHour
    BY <1>2, <2>1, <2>2, SparedIs
  <2> QED BY <2>1, <2>2, <2>3, <2>4
<1> QED BY <1>1, <1>3 DEF Sound, ForceTyped

LEMMA Renewed ==
  ASSUME Delays, ForceTyped, Table, NEW r \in Requests, Identify(r) \/ Renew(r)
  PROVE  Table'
<1>1. opened' = opened /\ now' = now /\ ended' = ended
  BY DEF Identify, Renew, Reads, counts
<1>2. CASE UNCHANGED sessions
  BY <1>1, <1>2, SameKept
<1>3. ASSUME NEW s \in sessions, Live(s), ~ Due(s), Put([s EXCEPT !.used = now])
      PROVE  Table'
  <2>1. PICK t : t = [s EXCEPT !.used = now]
    OBVIOUS
  <2>2. Sound(t) /\ t.id = s.id
    BY <1>3, <2>1, UsedNow DEF Table, Sound, RowFields
  <2>3. Sound(t)' /\ Put(t)
    BY <1>1, <1>3, <2>1, <2>2 DEF Sound, Spared
  <2> QED BY <1>1, <2>2, <2>3, PutKept
<1>4. ASSUME NEW s \in sessions, Put([s EXCEPT !.expires = RenewedTo(s), !.used = now])
      PROVE  Table'
  <2>1. PICK t : t = [s EXCEPT !.expires = RenewedTo(s), !.used = now]
    OBVIOUS
  <2>2. Sound(t) /\ t.id = s.id
    BY <2>1, RenewedNow DEF Table, Sound, RowFields
  <2>3. Sound(t)' /\ Put(t)
    BY <1>1, <1>4, <2>1, <2>2 DEF Sound, Spared
  <2> QED BY <1>1, <2>2, <2>3, PutKept
<1> QED BY <1>2, <1>3, <1>4 DEF Identify, Renew, Renewable, Of

(* What is opened is bound as its request was.                             *)
LEMMA Opened ==
  ASSUME Delays, ForceTyped, Table, UnderWay, NEW r \in Requests, Open(r)
  PROVE  Table'
<1>1. Fits(req[r]) /\ req[r].at = "opening"
  BY GoesOn DEF Open, At
<1>2. PICK t : t = Session(req[r])
  OBVIOUS
<1>3. /\ DOMAIN t = RowFields /\ t.id = opened + 1 /\ t.source = mode /\ t.under = req[r].under
      /\ t.created = now /\ t.used = now /\ t.shown = req[r].shown
      /\ t.expires = now + Opening(mode)
  BY <1>1, <1>2 DEF Session, RowFields, Fits
<1>4. Opening(mode) = IF Idle <= Lifetime[mode] THEN Idle ELSE Lifetime[mode]
  BY SparedIs DEF Opening, ForceTyped
<1>5. mode \in Modes /\ now \in Nat /\ Idle \in Nat /\ Slack \in Nat /\ LastHour \in Nat
      /\ Lifetime[mode] \in Nat /\ opened \in Nat
  BY DEF ForceTyped, Delays
<1>6. Spared(t) = IF now + Idle - Slack <= now + Lifetime[mode] - LastHour
                  THEN now + Idle - Slack ELSE now + Lifetime[mode] - LastHour
  <2>1. Spared(t) = Min({now + Idle - Slack, now + Lifetime[mode] - LastHour})
    BY <1>3 DEF Spared
  <2> QED BY <1>5, <2>1, SparedIs
<1>7. t.source = "apikey" => t.under = <<"key", t.shown>>
  BY <1>1, <1>3 DEF Fits, Phases, Routed
<1>8. t.expires \in Nat /\ t.expires <= t.used + Idle /\ t.expires >= Spared(t)
  BY <1>3, <1>4, <1>5, <1>6
<1>9. sessions' = sessions \cup {t} /\ opened' = opened + 1 /\ ended' = ended /\ now' = now
  BY <1>2 DEF Open, counts
<1>10. Sound(t)' /\ \A s \in sessions : s.id # t.id
  <2>1. t.id \in (1..opened)' /\ t.id \notin ended' /\ \A s \in sessions : s.id # t.id
    BY <1>3, <1>5, <1>9 DEF Table, Sound
  <2>2. t.source \in Modes /\ t.created \in Nat /\ t.used \in Nat /\ t.used <= now'
    BY <1>3, <1>5, <1>9
  <2> QED BY <1>3, <1>7, <1>8, <2>1, <2>2 DEF Sound, Spared
<1>11. ASSUME NEW s \in sessions PROVE Sound(s)'
  <2>1. Sound(s)
    BY DEF Table
  <2>2. s.id \in (1..opened)' /\ s.id \notin ended'
    BY <1>5, <1>9, <2>1 DEF Sound
  <2> QED BY <1>9, <2>1, <2>2 DEF Sound, Spared
<1> QED BY <1>5, <1>9, <1>10, <1>11 DEF Table

LEMMA Rebound ==
  ASSUME Table, NEW r \in Requests, Rebind(r)
  PROVE  Table'
<1> DEFINE Bound(s) == IF s.id = req[r].id /\ s.source = "apikey"
                       THEN [s EXCEPT !.under = Under("apikey", req[r].shown), !.shown = req[r].shown] ELSE s
<1>1. opened' = opened /\ now' = now /\ ended' = ended /\ sessions' = {Bound(s) : s \in sessions}
  BY DEF Rebind, Reads, counts
<1>2. \A s \in sessions : Bound(s).id = s.id /\ Sound(Bound(s))
  <2> TAKE s \in sessions
  <2>1. CASE s.id = req[r].id /\ s.source = "apikey"
    <3> DEFINE t == [s EXCEPT !.under = Under("apikey", req[r].shown), !.shown = req[r].shown]
    <3>1. /\ DOMAIN t = RowFields /\ t.id = s.id /\ t.source = s.source /\ t.created = s.created
          /\ t.used = s.used /\ t.expires = s.expires /\ t.shown = req[r].shown
          /\ t.under = <<"key", req[r].shown>>
      BY DEF Table, Sound, RowFields, Under
    <3> QED BY <2>1, <3>1 DEF Table, Sound, Spared
  <2> QED BY <2>1 DEF Table
<1>3. \A t \in sessions' : Sound(t) /\ \E s \in sessions : t = Bound(s) /\ t.id = s.id
  BY <1>1, <1>2
<1>4. \A t \in sessions' : Sound(t)'
  BY <1>1, <1>3 DEF Sound, Spared
<1>5. ASSUME NEW t \in sessions', NEW u \in sessions', t.id = u.id PROVE t = u
  <2>1. PICK s \in sessions : t = Bound(s) /\ t.id = s.id
    BY <1>3
  <2>2. PICK z \in sessions : u = Bound(z) /\ u.id = z.id
    BY <1>3
  <2>3. s = z
    BY <1>5, <2>1, <2>2 DEF Table
  <2> HIDE DEF Bound
  <2> QED BY <2>1, <2>2, <2>3
<1> QED BY <1>1, <1>4, <1>5 DEF Table

LEMMA TableKept ==
  ASSUME Delays, ForceTyped, Table, UnderWay, [Next]_vars
  PROVE  Table'
<1>1. ASSUME NEW r \in Requests, NEW b \in Browsers, NEW what \in Asked, Ask(r, b, what)
      PROVE  Table'
  BY <1>1, SameKept DEF Ask
<1>2. ASSUME NEW r \in Requests, Handles(r) PROVE Table'
  <2>1. CASE Identify(r) \/ Renew(r)
    BY <2>1, Renewed
  <2>2. CASE \/ RenewFails(r) \/ Use(r) \/ ReadHash(r) \/ Hashed(r) \/ Prove(r) \/ NoSuchRoute(r)
             \/ Rotate(r) \/ Withdraw(r) \/ ShowKey(r) \/ Start(r) \/ Callback(r) \/ Finish(r)
    BY <2>2, SameKept DEF RenewFails, Use, ReadHash, Hashed, Prove, NoSuchRoute, Rotate, Withdraw,
                          ShowKey, Start, Callback, Finish, Reads, counts
  <2>3. CASE EndAll(r) \/ EndOne(r) \/ Logout(r) \/ SetPassword(r) \/ EndKeySessions(r)
    <3>1. opened' = opened /\ now' = now
      BY <2>3 DEF EndAll, EndOne, Logout, SetPassword, EndKeySessions, Reads, counts
    <3>2. \E gone \in SUBSET sessions : Ends(gone)
      BY <2>3 DEF EndAll, EndOne, Logout, SetPassword, EndKeySessions, Of
    <3> QED BY <3>1, <3>2, EndedKept
  <2>4. CASE Open(r)
    BY <2>4, Opened
  <2>5. CASE Rebind(r)
    BY <2>5, Rebound
  <2> QED BY <1>2, <2>1, <2>2, <2>3, <2>4, <2>5 DEF Handles
<1>3. ASSUME NEW r \in Requests, Answer(r) \/ HangsUp(r) PROVE Table'
  BY <1>3, SameKept DEF Answer, HangsUp, counts
<1>4. CASE ResetAccount
  BY <1>4, EndedKept DEF ResetAccount
<1>5. CASE Purge \/ Restart \/ UNCHANGED vars
  BY <1>5, SameKept DEF Purge, Restart, vars, counts
<1>6. CASE TimePasses
  BY <1>6, TimeKept
<1> QED BY <1>1, <1>2, <1>3, <1>4, <1>5, <1>6 DEF Next

LEMMA ForceKept ==
  ASSUME ForceTyped, [Next]_vars
  PROVE  ForceTyped'
<1> USE DEF ForceTyped, inForce, counts, Reads
<1>1. ASSUME NEW r \in Requests, NEW b \in Browsers, NEW what \in Asked, Ask(r, b, what)
      PROVE  ForceTyped'
  BY <1>1 DEF Ask
<1>2. ASSUME NEW r \in Requests, Handles(r) PROVE ForceTyped'
  <2>1. CASE \/ Identify(r) \/ Renew(r) \/ RenewFails(r) \/ Use(r) \/ EndAll(r) \/ EndOne(r) \/ Logout(r)
             \/ ReadHash(r) \/ Hashed(r) \/ Prove(r) \/ NoSuchRoute(r) \/ Rebind(r) \/ EndKeySessions(r)
             \/ ShowKey(r) \/ Start(r) \/ Callback(r)
    <3>1. UNCHANGED <<mode, now, opened, asks>>
      BY <2>1 DEF Identify, Renew, RenewFails, Use, EndAll, EndOne, Logout, ReadHash, Hashed, Prove,
                  NoSuchRoute, Rebind, EndKeySessions, ShowKey, Start, Callback
    <3> QED BY <3>1
  <2>2. CASE SetPassword(r) \/ Rotate(r) \/ Withdraw(r) \/ Finish(r)
    <3>1. UNCHANGED <<mode, now, opened, asks>>
      BY <2>2 DEF SetPassword, Rotate, Withdraw, Finish
    <3> QED BY <3>1
  <2>3. CASE Open(r)
    <3>1. UNCHANGED <<mode, now, asks>> /\ opened' = opened + 1
      BY <2>3 DEF Open
    <3> QED BY <3>1
  <2> QED BY <1>2, <2>1, <2>2, <2>3 DEF Handles
<1>3. ASSUME NEW r \in Requests, Answer(r) \/ HangsUp(r) PROVE ForceTyped'
  BY <1>3 DEF Answer, HangsUp
<1>4. CASE ResetAccount \/ Purge \/ TimePasses \/ Restart \/ UNCHANGED vars
  BY <1>4 DEF ResetAccount, Purge, TimePasses, Restart, vars
<1> QED BY <1>1, <1>2, <1>3, <1>4 DEF Next

-----------------------------------------------------------------------------
(* A sign-in that goes on carries what it did; a start numbers and dates   *)
(* the sign-in it begins.                                                  *)
Others(r) == \A t \in Requests \ {r} : req'[t] = req[t]
Still == UNCHANGED <<given, attempts, back>> /\ asks' = asks /\ now' = now

LEMMA CarriesOn ==
  ASSUME NEW q, NEW p, Carries(q), Still, p.by = q.by, p.no = q.no, p.what = q.what, q.what # "start"
  PROVE  Carries(p)'
BY DEF Carries, Still

LEMMA CarriedBy ==
  ASSUME Carried, NEW r \in Requests, Others(r), Still, At(r, "idle")' \/ Carries(req[r])'
  PROVE  Carried'
BY DEF Carried, Others, Still, At, Carries, Begun

(* What a handler leaves of its request, but for a start.                  *)
SameAsker(r) ==
  /\ req'[r].by = req[r].by /\ req'[r].no = req[r].no /\ req'[r].what = req[r].what
  /\ req[r].what # "start" /\ req[r].at # "idle"

LEMMA IdentifyLeaves ==
  ASSUME UnderWay, NEW r \in Requests, Identify(r) \/ Renew(r)
  PROVE  SameAsker(r)
<1>1. DOMAIN req = Requests /\ Fits(req[r]) /\ req[r].at \in {"asked", "renewing"}
  BY GoesOn DEF Identify, Renew, At
<1>2. ASSUME NEW step, Goes(r, step) PROVE SameAsker(r)
  BY <1>1, <1>2 DEF Goes, SameAsker, Fits, Phases, Fields
<1>3. ASSUME NEW x, NEW y, NEW step,
             req' = [req EXCEPT ![r].at = step, ![r].read = x, ![r].signedIn = y]
      PROVE  SameAsker(r)
  BY <1>1, <1>3 DEF SameAsker, Fits, Phases, Fields
<1>4. ASSUME NEW x, req' = [req EXCEPT ![r].at = "handling", ![r].gives = x] PROVE SameAsker(r)
  BY <1>1, <1>4 DEF SameAsker, Fits, Phases, Fields
<1> QED BY <1>2, <1>3, <1>4 DEF Identify, Renew

LEMMA HandlingLeaves ==
  ASSUME UnderWay, NEW r \in Requests,
         RenewFails(r) \/ Use(r) \/ EndAll(r) \/ EndOne(r) \/ Logout(r)
  PROVE  SameAsker(r)
<1>1. DOMAIN req = Requests /\ Fits(req[r]) /\ req[r].at \in {"renewing", "handling"}
  BY GoesOn DEF RenewFails, Use, EndAll, EndOne, Logout, At
<1>2. ASSUME NEW step, Goes(r, step) PROVE SameAsker(r)
  BY <1>1, <1>2 DEF Goes, SameAsker, Fits, Phases, Fields
<1>3. ASSUME NEW c, req' = [req EXCEPT ![r].at = "answering", ![r].clears = c] PROVE SameAsker(r)
  BY <1>1, <1>3 DEF SameAsker, Fits, Phases, Fields
<1> QED BY <1>2, <1>3 DEF RenewFails, Use, EndAll, EndOne, Logout

LEMMA ProvingLeaves ==
  ASSUME UnderWay, NEW r \in Requests,
         \/ ReadHash(r) \/ Hashed(r) \/ Prove(r) \/ NoSuchRoute(r) \/ SetPassword(r)
         \/ Rotate(r) \/ Rebind(r) \/ EndKeySessions(r) \/ Withdraw(r)
  PROVE  SameAsker(r)
<1>1. /\ DOMAIN req = Requests /\ Fits(req[r])
      /\ req[r].at \in {"login", "handling", "hashing", "setting", "rotate", "rebinding", "ending", "withdraw"}
  BY GoesOn DEF ReadHash, Hashed, Prove, Proves, NoSuchRoute, SetPassword, Rotate, Rebind, EndKeySessions,
                Withdraw, At
<1>2. ASSUME NEW step, Goes(r, step) PROVE SameAsker(r)
  BY <1>1, <1>2 DEF Goes, SameAsker, Fits, Phases, Fields
<1>3. ASSUME NEW step, NEW x,
             \/ req' = [req EXCEPT ![r].at = step, ![r].read = x]
             \/ req' = [req EXCEPT ![r].at = step, ![r].under = x]
             \/ req' = [req EXCEPT ![r].at = step, ![r].shown = x]
             \/ req' = [req EXCEPT ![r].at = step]
      PROVE SameAsker(r)
  BY <1>1, <1>3 DEF SameAsker, Fits, Phases, Fields
<1>4. CASE ReadHash(r) \/ Hashed(r)
  BY <1>2, <1>3, <1>4 DEF ReadHash, Hashed
<1>5. CASE Prove(r) \/ NoSuchRoute(r) \/ SetPassword(r)
  BY <1>2, <1>3, <1>5 DEF Prove, NoSuchRoute, SetPassword
<1>6. CASE Rotate(r) \/ Rebind(r) \/ EndKeySessions(r) \/ Withdraw(r)
  BY <1>2, <1>3, <1>6 DEF Rotate, Rebind, EndKeySessions, Withdraw
<1> QED BY <1>4, <1>5, <1>6

LEMMA OpeningLeaves ==
  ASSUME UnderWay, NEW r \in Requests, ShowKey(r) \/ Callback(r) \/ Finish(r) \/ Open(r)
  PROVE  SameAsker(r)
<1>1. DOMAIN req = Requests /\ Fits(req[r]) /\ req[r].at \in {"key", "callback", "exchanging", "opening"}
  BY GoesOn DEF ShowKey, Callback, Finish, Open, At
<1>2. ASSUME NEW step, Goes(r, step) PROVE SameAsker(r)
  BY <1>1, <1>2 DEF Goes, SameAsker, Fits, Phases, Fields
<1>3. ASSUME NEW x, NEW y,
             \/ req' = [req EXCEPT ![r].at = "opening", ![r].under = x]
             \/ req' = [req EXCEPT ![r].at = "opening", ![r].reach = x, ![r].under = y]
             \/ req' = [req EXCEPT ![r].at = "answering", ![r].gives = x]
      PROVE SameAsker(r)
  BY <1>1, <1>3 DEF SameAsker, Fits, Phases, Fields
<1> QED BY <1>2, <1>3 DEF ShowKey, Callback, Finish, Open

LEMMA HandlesLeave ==
  ASSUME UnderWay, NEW r \in Requests, Handles(r), ~ Start(r)
  PROVE  SameAsker(r)
BY IdentifyLeaves, HandlingLeaves, ProvingLeaves, OpeningLeaves DEF Handles

LEMMA HandlesStill ==
  ASSUME NEW r \in Requests, Handles(r)
  PROVE  Still
<1>1. CASE \/ Identify(r) \/ Renew(r) \/ RenewFails(r) \/ Use(r) \/ EndAll(r) \/ EndOne(r) \/ Logout(r)
           \/ ReadHash(r) \/ Hashed(r) \/ Prove(r) \/ NoSuchRoute(r) \/ Rebind(r) \/ EndKeySessions(r)
           \/ ShowKey(r) \/ Start(r) \/ Callback(r)
  <2>1. UNCHANGED <<browser, counts>>
    BY <1>1 DEF Identify, Renew, RenewFails, Use, EndAll, EndOne, Logout, ReadHash, Hashed, Prove,
                NoSuchRoute, Rebind, EndKeySessions, ShowKey, Start, Callback, Reads
  <2> QED BY <2>1 DEF browser, counts, Still
<1>2. CASE SetPassword(r) \/ Rotate(r) \/ Withdraw(r) \/ Finish(r) \/ Open(r)
  BY <1>2 DEF SetPassword, Rotate, Withdraw, Finish, Open, browser, counts, Still
<1> QED BY <1>1, <1>2 DEF Handles

LEMMA AskCarries ==
  ASSUME ForceTyped, UnderWay, Carried, NEW r \in Requests, NEW b \in Browsers, NEW what \in Asked, Ask(r, b, what)
  PROVE  Carried'
<1>1. /\ DOMAIN req = Requests /\ Others(r) /\ asks' = asks + 1 /\ now' = now
      /\ UNCHANGED <<given, attempts>>
  BY DEF Ask, UnderWay, Others, browser
<1>2. /\ req'[r].by = b /\ req'[r].no = asks + 1 /\ req'[r].held = attempts[b]
      /\ req'[r].at # "answering"
  BY <1>1 DEF Ask, Public
<1>3. \A c \in Browsers : Begun(c)' /\ \A a \in given[c] : a.no < asks + 1
  BY <1>1 DEF Carried, Begun, ForceTyped
<1>4. Carries(req[r])'
  BY <1>1, <1>2, <1>3 DEF Carried, Carries, Begun, ForceTyped
<1>5. \A t \in Requests \ {r} : ~ At(t, "idle")' => Carries(req[t])'
  BY <1>1 DEF Carried, Carries, Others, At, ForceTyped
<1> QED BY <1>1, <1>3, <1>4, <1>5 DEF Carried

LEMMA StartCarries ==
  ASSUME Delays, ForceTyped, UnderWay, Carried, NEW r \in Requests, Start(r)
  PROVE  Carried'
<1>1. DOMAIN req = Requests /\ Fits(req[r]) /\ req[r].at = "start" /\ Carries(req[r])
  BY GoesOn DEF Start, At, Carried
<1>2. Still /\ Others(r)
  BY <1>1, HandlesStill DEF Start, Others, Handles
<1>3. /\ req'[r].by = req[r].by /\ req'[r].no = req[r].no /\ req'[r].what = req[r].what
      /\ req'[r].held = req[r].held /\ req'[r].attempt = [no |-> req[r].no, expires |-> now + Flow]
  BY <1>1 DEF Start, Fits, Fields
<1>4. now \in Nat /\ Flow \in Nat /\ \A a \in given[req[r].by] : a.expires <= now + Flow
  BY <1>1 DEF ForceTyped, Delays, Carried, Begun, Carries
<1>5. Carries(req[r])'
  BY <1>1, <1>2, <1>3, <1>4 DEF Carries, Still
<1> QED BY <1>2, <1>5, CarriedBy

(* The answer adds the sign-in it begins to those of its browser.          *)
LEMMA AnswerCarries ==
  ASSUME Delays, ForceTyped, UnderWay, Carried, NEW r \in Requests, Answer(r)
  PROVE  Carried'
<1> DEFINE b == req[r].by
           q == req[r]
<1>1. q.at = "answering" /\ Carries(q) /\ b \in Browsers
  BY DEF Answer, At, Carried, Carries
<1>2. /\ At(r, "idle")' /\ Others(r) /\ asks' = asks /\ now' = now
  BY DEF Answer, UnderWay, At, Idling, Others, counts
<1>3. /\ DOMAIN given' = Browsers /\ DOMAIN attempts' = Browsers
      /\ \A c \in Browsers : given[c] \subseteq given'[c]
      /\ \A c \in Browsers \ {b} : given'[c] = given[c] /\ attempts'[c] = attempts[c]
  BY DEF Answer, Carried
<1>4. /\ given'[b] = IF q.what = "start" THEN given[b] \cup {q.attempt} ELSE given[b]
      /\ attempts'[b] \subseteq IF q.what = "start" THEN attempts[b] \cup {q.attempt} ELSE attempts[b]
  BY <1>1 DEF Answer, Carried
<1>5. IsFiniteSet(given'[b]) /\ attempts'[b] \subseteq given'[b]
  <2>1. IsFiniteSet(given[b]) /\ attempts[b] \subseteq given[b]
    BY <1>1 DEF Carried, Begun
  <2>2. IsFiniteSet(given[b] \cup {q.attempt})
    BY <2>1, FS_AddElement
  <2> QED BY <1>4, <2>1, <2>2
<1>6. \A a \in given'[b] : a.no \in Nat /\ a.no <= asks /\ a.expires \in Nat /\ a.expires <= now + Flow
  BY <1>1, <1>4 DEF Carried, Begun, Carries
<1>7. \A c \in Browsers : Begun(c)'
  BY <1>2, <1>3, <1>5, <1>6 DEF Carried, Begun
<1>8. \A t \in Requests : ~ At(t, "idle")' => Carries(req[t])'
  BY <1>2, <1>3 DEF Carried, Carries, Others, At
<1> QED BY <1>3, <1>7, <1>8 DEF Carried

LEMMA CarriedKept ==
  ASSUME Delays, ForceTyped, UnderWay, Carried, [Next]_vars
  PROVE  Carried'
<1>1. ASSUME NEW r \in Requests, NEW b \in Browsers, NEW what \in Asked, Ask(r, b, what)
      PROVE  Carried'
  BY <1>1, AskCarries
<1>2. ASSUME NEW r \in Requests, Handles(r), ~ Start(r) PROVE Carried'
  <2>1. SameAsker(r) /\ Still /\ Others(r)
    BY <1>2, HandlesLeave, HandlesStill, HandlesMove DEF Moves, Others
  <2>2. Carries(req[r])'
    BY <2>1, CarriesOn DEF SameAsker, Carried, At
  <2> QED BY <2>1, <2>2, CarriedBy
<1>3. ASSUME NEW r \in Requests, Start(r) PROVE Carried'
  BY <1>3, StartCarries
<1>4. ASSUME NEW r \in Requests, Answer(r) PROVE Carried'
  BY <1>4, AnswerCarries
<1>5. ASSUME NEW r \in Requests, HangsUp(r) PROVE Carried'
  BY <1>5, CarriedBy DEF HangsUp, Others, Still, At, Idling, UnderWay, browser, counts
<1>6. CASE ResetAccount \/ Purge \/ Restart \/ UNCHANGED vars
  BY <1>6 DEF ResetAccount, Purge, Restart, vars, browser, counts, Carried, Carries, Begun, At, Idling
<1>7. CASE TimePasses
  BY <1>7 DEF TimePasses, browser, Carried, Carries, Begun, At, ForceTyped, Delays
<1> QED BY <1>1, <1>2, <1>3, <1>4, <1>5, <1>6, <1>7 DEF Next

-----------------------------------------------------------------------------
(* A start clears none of those that may still be answered: one cleared    *)
(* has ATTEMPTS_KEPT later ones beside it, and the one it begins.          *)
LEMMA ClearsTheOldest ==
  ASSUME Delays, ForceTyped, UnderWay, Carried, NEW r \in Requests, Answer(r), req[r].what = "start",
         NEW a \in req[r].held \ Latest(req[r].held)
  PROVE  Cardinality({x \in given'[req[r].by] : Later(x, a)}) > Kept
<1> DEFINE q == req[r]
           b == q.by
           after == {x \in q.held : Later(x, a)}
           now_ == {x \in given'[b] : Later(x, a)}
<1>1. /\ q.at = "answering" /\ b \in Browsers /\ q.held \subseteq given[b] /\ IsFiniteSet(given[b])
      /\ \A x \in q.held : x.no < q.no /\ x.expires <= q.attempt.expires
      /\ q.attempt.no = q.no /\ q.attempt.expires \in Nat /\ q.no \in Nat
  BY DEF Answer, At, Carried, Carries, Begun
<1>2. given'[b] = given[b] \cup {q.attempt}
  BY <1>1 DEF Answer, Carried
<1>3. a.no \in Nat /\ a.expires \in Nat
  BY <1>1 DEF Carried, Begun
<1>4. Later(q.attempt, a) /\ q.attempt \notin q.held
  BY <1>1, <1>3 DEF Later
<1>5. IsFiniteSet(after) /\ IsFiniteSet(now_) /\ after \cup {q.attempt} \subseteq now_
  <2>1. IsFiniteSet(given'[b])
    BY <1>1, <1>2, FS_AddElement
  <2> QED BY <1>1, <1>2, <1>4, <2>1, FS_Subset
<1>6. Cardinality(after \cup {q.attempt}) = Cardinality(after) + 1 /\ Cardinality(after) \in Nat
  BY <1>4, <1>5, FS_AddElement, FS_CardinalityType
<1>7. Cardinality(after \cup {q.attempt}) <= Cardinality(now_)
  BY <1>5, FS_Subset
<1>8. ~ Cardinality(after) < Kept
  BY DEF Latest
<1>9. Cardinality(now_) \in Nat /\ Kept \in Nat
  BY <1>5, FS_CardinalityType DEF Delays
<1> QED BY <1>6, <1>7, <1>8, <1>9

LEMMA AttemptsKept ==
  ASSUME Delays, ForceTyped, UnderWay, Carried, AttemptsLast, [Next]_vars
  PROVE  AttemptsLast'
<1>1. ASSUME UNCHANGED <<given, attempts, back>> PROVE AttemptsLast'
  BY <1>1 DEF AttemptsLast
<1>2. ASSUME NEW r \in Requests, Answer(r) PROVE AttemptsLast'
  <2> DEFINE q == req[r]
  <2> SUFFICES ASSUME NEW b \in Browsers, NEW a \in given'[b] \ back',
                      Cardinality({x \in given'[b] : Later(x, a)}) <= Kept
               PROVE  a \in attempts'[b]
    BY DEF AttemptsLast
  <2>1. /\ Carries(q) /\ q.at = "answering"
    BY <1>2 DEF Answer, At, Carried
  <2>2. IsFiniteSet(given'[b]) /\ given[b] \subseteq given'[b]
    <3>1. Carried'
      BY <1>2, AnswerCarries
    <3> QED BY <1>2, <3>1 DEF Answer, Carried, Begun
  <2>3. a \in given[b] \ back => a \in attempts[b]
    <3>1. {x \in given[b] : Later(x, a)} \subseteq {x \in given'[b] : Later(x, a)}
          /\ IsFiniteSet({x \in given'[b] : Later(x, a)})
      BY <2>2, FS_Subset
    <3>2. Cardinality({x \in given[b] : Later(x, a)}) <= Cardinality({x \in given'[b] : Later(x, a)})
          /\ Cardinality({x \in given[b] : Later(x, a)}) \in Nat
          /\ Cardinality({x \in given'[b] : Later(x, a)}) \in Nat
      BY <3>1, FS_Subset, FS_CardinalityType
    <3> QED BY <3>2 DEF AttemptsLast, Delays
  <2>4. a \notin back
    BY <1>2 DEF Answer
  <2>5. CASE b # q.by
    BY <1>2, <2>1, <2>3, <2>4, <2>5 DEF Answer, Carried
  <2>6. CASE b = q.by /\ q.what = "start"
    <3>1. given'[b] = given[b] \cup {q.attempt}
          /\ attempts'[b] = (attempts[b] \ (q.held \ Latest(q.held))) \cup {q.attempt}
      BY <1>2, <2>6 DEF Answer, Carried
    <3>2. a \notin q.held \ Latest(q.held)
      <4>1. Cardinality({x \in given'[b] : Later(x, a)}) \in Nat
        BY <2>2, FS_Subset, FS_CardinalityType
      <4> QED BY <1>2, <2>6, <4>1, ClearsTheOldest DEF Delays
    <3> QED BY <2>3, <2>4, <3>1, <3>2
  <2>7. CASE b = q.by /\ q.what = "callback"
    BY <1>2, <2>3, <2>4, <2>7 DEF Answer, Carried
  <2>8. CASE q.what \notin {"start", "callback"}
    BY <1>2, <2>3, <2>4, <2>8 DEF Answer, Carried
  <2> QED BY <2>5, <2>6, <2>7, <2>8
<1>3. ASSUME NEW r \in Requests, Handles(r) PROVE AttemptsLast'
  BY <1>1, <1>3, HandlesStill DEF Still
<1>4. ASSUME NEW r \in Requests, NEW b \in Browsers, NEW what \in Asked, Ask(r, b, what)
      PROVE  AttemptsLast'
  BY <1>1, <1>4 DEF Ask, browser
<1>5. ASSUME NEW r \in Requests, HangsUp(r) PROVE AttemptsLast'
  BY <1>1, <1>5 DEF HangsUp, browser
<1>6. CASE ResetAccount \/ Purge \/ Restart \/ TimePasses \/ UNCHANGED vars
  BY <1>1, <1>6 DEF ResetAccount, Purge, Restart, TimePasses, vars, browser
<1> QED BY <1>2, <1>3, <1>4, <1>5, <1>6 DEF Next

-----------------------------------------------------------------------------
(* Only a look-up lets a request through.                                  *)
LEMMA OnlyIdentify ==
  ASSUME UnderWay, NEW r \in Requests, LetThrough(r) # {}, [Next]_vars
  PROVE  Identify(r)
<1>1. req[r].at = "asked" /\ req'[r].at \in {"renewing", "handling"}
  BY DEF LetThrough, At
<1>2. ASSUME NEW t \in Requests, NEW b \in Browsers, NEW what \in Asked, Ask(t, b, what) PROVE FALSE
  <2>1. t # r
    BY <1>1, <1>2 DEF Ask, At
  <2> QED BY <1>1, <1>2, <2>1 DEF Ask, UnderWay
<1>3. ASSUME NEW t \in Requests, Handles(t) PROVE Identify(r)
  <2>1. t = r
    BY <1>1, <1>3, HandlesMove DEF Moves
  <2> QED BY <1>1, <1>3, <2>1 DEF Handles, At, Renew, RenewFails, Use, EndAll, EndOne, Logout, ReadHash,
        Hashed, Prove, Proves, NoSuchRoute, SetPassword, Rotate, Rebind, EndKeySessions, Withdraw,
        ShowKey, Start, Callback, Finish, Open
<1>4. ASSUME NEW t \in Requests, Answer(t) \/ HangsUp(t) PROVE FALSE
  BY <1>1, <1>4 DEF Answer, HangsUp, UnderWay, Idling
<1>5. CASE ResetAccount \/ Purge \/ Restart \/ TimePasses \/ UNCHANGED vars
  BY <1>1, <1>5 DEF ResetAccount, Purge, Restart, TimePasses, vars, Idling
<1> QED BY <1>2, <1>3, <1>4, <1>5 DEF Next

LEMMA ThroughAsSaid ==
  ASSUME Delays, Inv, [Next]_vars
  PROVE  EndedStaysEnded /\ EndsInTime
<1> SUFFICES ASSUME NEW r \in Requests, NEW s \in LetThrough(r)
             PROVE  /\ s.id \notin ended /\ (mode = "apikey" => s.shown = key)
                    /\ now < s.created + Lifetime[s.source] /\ now < s.used + Idle
  BY DEF EndedStaysEnded, EndsInTime
<1>1. Identify(r) /\ s \in Of(req[r].id)
  BY OnlyIdentify DEF Inv, LetThrough
<1>2. /\ req[r].what # "logout" /\ req[r].id # 0 /\ req[r].at = "asked"
      /\ req'[r].at \in {"renewing", "handling"}
  BY DEF LetThrough, At
<1>3. DOMAIN req = Requests /\ DOMAIN req[r] = Fields
  BY <1>2, GoesOn DEF Inv, Fits
<1>4. ~ Goes(r, "answering")
  BY <1>2, <1>3 DEF Goes, Fields
<1>5. PICK t \in Of(req[r].id) : Live(t)
  BY <1>1, <1>2, <1>4 DEF Identify
<1>6. s = t
  BY <1>1, <1>5 DEF Of, Inv, Table
<1>7. Sound(s) /\ Live(s)
  BY <1>1, <1>5, <1>6 DEF Of, Inv, Table
<1>8. mode = "apikey" => s.shown = key
  BY <1>7 DEF Sound, Live, Under
<1>9. now < s.created + Lifetime[s.source] /\ now < s.used + Idle
  BY <1>7 DEF Sound, Live, Delays, Inv, ForceTyped
<1> QED BY <1>7, <1>8, <1>9 DEF Sound

LEMMA SpareKeepsLive ==
  ASSUME Delays, Inv
  PROVE  LastsWhileUsed
<1> SUFFICES ASSUME NEW s \in sessions, now < Spared(s)
             PROVE  s.expires > now
  BY DEF LastsWhileUsed, Spared
<1>1. s.source \in Modes /\ s.used \in Nat /\ s.created \in Nat /\ s.expires \in Nat /\ s.expires >= Spared(s)
  BY DEF Inv, Table, Sound
<1>2. Spared(s) \in Int /\ now \in Nat
  <2>1. s.used + Idle - Slack \in Int /\ s.created + Lifetime[s.source] - LastHour \in Int
    BY <1>1 DEF Delays
  <2> QED BY <2>1, MinOfTwo DEF Spared, Inv, ForceTyped
<1> QED BY <1>1, <1>2

LEMMA Begins ==
  ASSUME Init
  PROVE  IInv
<1>1. ForceTyped /\ Table /\ UnderWay
  BY DEF Init, ForceTyped, Table, UnderWay, At, Idling
<1>2. Carried
  BY FS_EmptySet DEF Init, Carried, Begun, At, Idling
<1>3. AttemptsLast
  BY DEF Init, AttemptsLast
<1> QED BY <1>1, <1>2, <1>3 DEF IInv, Inv

(* IInv holds of every state.                                              *)
LEMMA Invariance ==
  ASSUME Delays
  PROVE  Spec => []IInv
<1>1. IInv /\ [Next]_vars => IInv'
  BY ForceKept, TableKept, UnderWayKept, CarriedKept, AttemptsKept DEF IInv, Inv
<1> QED BY <1>1, Begins, PTL DEF Spec

(* No request is let through by a session something ended, by one bound to *)
(* another key than the one in force, nor by one past its time             *)
(* (accounts.rs live_session, account.rs rotate_api_key).                  *)
THEOREM NoneComesBack ==
  ASSUME Delays
  PROVE  Spec => [][EndedStaysEnded /\ EndsInTime]_vars
<1>1. IInv /\ [Next]_vars => [EndedStaysEnded /\ EndsInTime]_vars
  BY ThroughAsSaid DEF IInv
<1> QED BY <1>1, Invariance, PTL DEF Spec

(* A session used lasts until it was not for SESSION_DAYS but one or to    *)
(* the last hour of its lifetime, a sign-in begun beside the ATTEMPTS_KEPT *)
(* begun after it (accounts.rs live_session, auth.rs attempts_to_clear).   *)
THEOREM AllLast ==
  ASSUME Delays
  PROVE  Spec => []LastsAsSaid
<1>1. IInv => LastsAsSaid
  BY SpareKeepsLive DEF IInv, LastsAsSaid
<1> QED BY <1>1, Invariance, PTL
=============================================================================
