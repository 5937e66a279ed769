------------------------------- MODULE Sessions -------------------------------
(***************************************************************************)
(* The sessions a person holds: opened by a password, by the API key or at *)
(* an identity provider, read and renewed by each request that carries     *)
(* their cookie, ended by a sign-out, a new password or a new key          *)
(* (services/accounts.rs, services/oidc.rs, api/auth.rs, api/account.rs).  *)
(*                                                                         *)
(* A request runs from what the browser sent to the answer it gets, one    *)
(* step between two awaits; the browser may hang up at any of them. Time   *)
(* is counted in one unit for every delay. Passwords, keys and sessions    *)
(* are numbered in the order they are made. The places and waits of a      *)
(* password check are SignIn's; a wrong password or key opens nothing.     *)
(***************************************************************************)
EXTENDS Integers, FiniteSets, FiniteSetsExt

CONSTANTS
  Browsers, Requests,
  Modes,            \* the modes a start may find configured
  Lists,            \* the lists of persons and groups it may find
  Asked,            \* what a browser may ask
  Lifetime,         \* lifetime_hours, by mode
  Idle, Slack,      \* SESSION_DAYS, and the day after which renewing is due
  LastHour, Recent, \* of a lifetime, and RECENT_SIGN_IN_SECONDS
  Flow, Kept,       \* FLOW_MINUTES and ATTEMPTS_KEPT
  MaxTime, MaxSessions, MaxAsks, MaxChanges, None

Delays ==
  /\ Idle \in Nat /\ Slack \in 0..Idle /\ Flow \in Nat /\ Kept \in Nat /\ LastHour \in Nat
  /\ Lifetime \in [Modes -> Nat] /\ \A m \in Modes : LastHour <= Lifetime[m]

VARIABLES
  now, mode, lists,
  password, key,    \* in force; key 0 is none
  keys,             \* keys made
  sessions, opened, \* the table, and how many rows it ever had
  cookie, attempts, \* what each browser holds
  spent,            \* the codes the provider exchanged
  req,
  ended,            \* ghost: the sessions something ended
  given, back,      \* ghosts: the sign-ins each browser began, and those that came back
  asks, changes

inForce == <<mode, lists, password, key, keys>>
browser == <<cookie, attempts, given, back>>
counts == <<now, asks, changes>>
vars == <<inForce, sessions, opened, browser, spent, req, ended, counts>>

Idling == [at |-> "idle"]

-----------------------------------------------------------------------------
(* OpenedUnder                                                             *)
Under(m, k) == IF m = "apikey" THEN <<"key", k>> ELSE IF m = "oidc" THEN <<"lists", lists>> ELSE <<"account">>

(* live_session: the mode, what it is bound to, its expiry, its lifetime.  *)
Live(s) ==
  /\ s.source = mode /\ s.under = Under(mode, key)
  /\ s.expires > now /\ s.created > now - Lifetime[mode]

(* Mutant: renewed only on its last day.                                   *)
DueAtTheEnd(s) == s.expires <= now + 1
Due(s) == s.expires < Min({now + Idle - Slack, s.created + Lifetime[s.source] - LastHour})
RenewedTo(s) == Min({now + Idle, s.created + Lifetime[s.source]})

Of(id) == {s \in sessions : s.id = id}
Put(s) == sessions' = {t \in sessions : t.id # s.id} \cup {s}

(* open_session                                                            *)
Opening(m) == Min({Idle, Lifetime[m]})
(* Mutant: bound to the key in force as the row is written.                *)
BoundLate(q) ==
  [id |-> opened + 1, source |-> q.source, reach |-> q.reach, under |-> Under(q.source, key),
   created |-> now, expires |-> now + Opening(q.source), used |-> now, shown |-> q.shown]
Session(q) ==
  [id |-> opened + 1, source |-> q.source, reach |-> q.reach, under |-> q.under,
   created |-> now, expires |-> now + Opening(q.source),
   used |-> now, shown |-> q.shown]  \* ghosts

-----------------------------------------------------------------------------
At(r, step) == req[r].at = step
Goes(r, step) == req' = [req EXCEPT ![r].at = step]

(* What the browser sends: a cookie past its Max-Age is dropped.           *)
CookieOf(b) == IF cookie[b] # None /\ cookie[b].until > now THEN cookie[b].id ELSE 0

(* The way in of each mode, and what any mode answers.                     *)
Routed(what) ==
  /\ what = "login" => mode = "forms"
  /\ what = "key" => mode = "apikey"
  /\ what \in {"start", "callback"} => mode = "oidc"
Public == {"login", "key", "start", "callback"}

(* A person types the password and the key they know, which are those in   *)
(* force as they type; a caller with no session sends that key in a        *)
(* header.                                                                 *)
Ask(r, b, what) ==
  /\ At(r, "idle") /\ Routed(what) /\ asks < MaxAsks
  /\ \E a \in (IF what = "callback" THEN attempts[b] ELSE {None}) :
       req' = [req EXCEPT ![r] =
         [at |-> IF what \in Public THEN what ELSE "asked", what |-> what, by |-> b, id |-> CookieOf(b),
          typed |-> [password |-> password, key |-> key], attempt |-> a, held |-> attempts[b],
          source |-> mode, reach |-> "full", under |-> None, shown |-> key,
          no |-> asks + 1, read |-> 0, signedIn |-> None, gives |-> None, clears |-> FALSE]]
  /\ asks' = asks + 1
  /\ UNCHANGED <<inForce, sessions, opened, browser, spent, ended, now, changes>>

Reads == UNCHANGED <<mode, lists, opened, browser, spent, counts>>

(* authenticate: refused, let through, or renewed first. A reader asks for *)
(* nothing but reads. A sign-out, which is public, looks its session up    *)
(* the same way and goes on without one.                                   *)
Identify(r) ==
  /\ At(r, "asked")
  /\ LET found == {s \in Of(req[r].id) : Live(s)}
         byKey == req[r].id = 0 /\ key # 0 /\ req[r].typed.key = key
     IN \/ /\ byKey \/ (req[r].what = "logout" /\ found = {})
           /\ Goes(r, "handling") /\ UNCHANGED sessions
        \/ /\ ~ byKey /\ req[r].what # "logout"
           /\ \A s \in found : s.reach = "read" /\ req[r].what # "use"
           /\ Goes(r, "answering") /\ UNCHANGED sessions
        \/ \E s \in found :
             /\ s.reach = "full" \/ req[r].what \in {"use", "logout"}
             /\ req' = [req EXCEPT ![r].at = IF Due(s) THEN "renewing" ELSE "handling",
                                   ![r].read = s.expires, ![r].signedIn = s.created]
             /\ IF Due(s) THEN UNCHANGED sessions ELSE Put([s EXCEPT !.used = now])
  /\ UNCHANGED <<password, key, keys, ended>> /\ Reads

(* Mutant: the row read is written whatever became of it.                  *)
RenewsWhatWasRead(r) ==
  {[id |-> req[r].id, source |-> req[r].source, reach |-> "full", under |-> Under(mode, key),
    created |-> req[r].signedIn, expires |-> req[r].read, used |-> now, shown |-> key]}
(* Of two requests that find it due, the one that still reads its expiry.  *)
Renewable(r) == {s \in Of(req[r].id) : s.expires = req[r].read}
Renew(r) ==
  /\ At(r, "renewing")
  /\ \/ /\ Renewable(r) = {} /\ Goes(r, "handling") /\ UNCHANGED sessions
     \/ \E s \in Renewable(r) :
          /\ Put([s EXCEPT !.expires = RenewedTo(s), !.used = now])
          /\ req' = [req EXCEPT ![r].at = "handling",
                                ![r].gives = [id |-> s.id, left |-> RenewedTo(s) - now]]
  /\ UNCHANGED <<password, key, keys, ended>> /\ Reads

(* The database refuses the renewal: the request goes on without it.       *)
RenewFails(r) ==
  /\ At(r, "renewing") /\ Goes(r, "handling")
  /\ UNCHANGED <<password, key, keys, sessions, ended>> /\ Reads

Ends(gone) == sessions' = sessions \ gone /\ ended' = ended \cup {s.id : s \in gone}

(* A plain request, sign-out everywhere, one session ended by its handle.  *)
Use(r) ==
  /\ At(r, "handling") /\ req[r].what = "use" /\ Goes(r, "answering")
  /\ UNCHANGED <<password, key, keys, sessions, ended>> /\ Reads
EndAll(r) ==
  /\ At(r, "handling") /\ req[r].what = "everywhere"
  /\ Ends(sessions)
  /\ req' = [req EXCEPT ![r].at = "answering", ![r].clears = TRUE]
  /\ UNCHANGED <<password, key, keys>> /\ Reads
EndOne(r) ==
  /\ At(r, "handling") /\ req[r].what = "end"
  /\ \E s \in sessions :
       /\ Ends({s})
       /\ req' = [req EXCEPT ![r].at = "answering", ![r].clears = (s.id = req[r].id)]
  /\ UNCHANGED <<password, key, keys>> /\ Reads
Logout(r) ==
  /\ At(r, "handling") /\ req[r].what = "logout"
  /\ Ends(Of(req[r].id))
  /\ req' = [req EXCEPT ![r].at = "answering", ![r].clears = TRUE]
  /\ UNCHANGED <<password, key, keys>> /\ Reads

-----------------------------------------------------------------------------
(* prove, and a sign-in by password: the hash is read, then compared.      *)
Proves(r) == At(r, "handling") /\ req[r].what \in {"rotate", "withdraw"}
ReadHash(r) ==
  /\ \/ At(r, "login")
     \/ At(r, "handling") /\ req[r].what = "password" /\ mode = "forms"
     \/ Proves(r) /\ req[r].signedIn # None /\ mode = "forms"
  /\ req' = [req EXCEPT ![r].at = "hashing", ![r].read = password]
  /\ UNCHANGED <<password, key, keys, sessions, ended>> /\ Reads

Next1(what) ==
  CASE what = "login" -> "opening" [] what = "password" -> "setting" [] OTHER -> what
Hashed(r) ==
  /\ At(r, "hashing")
  /\ IF req[r].read # req[r].typed.password THEN Goes(r, "answering")
     ELSE req' = [req EXCEPT ![r].at = Next1(req[r].what), ![r].under = Under("forms", key)]
  /\ UNCHANGED <<password, key, keys, sessions, ended>> /\ Reads

(* A key sent in a header is its own proof. In the other modes: the key in *)
(* force, or a recent sign-in.                                             *)
Proven(q) ==
  \/ q.signedIn = None
  \/ mode = "apikey" /\ q.typed.key = key
  \/ mode = "oidc" /\ now - q.signedIn <= Recent
Prove(r) ==
  /\ Proves(r) /\ (req[r].signedIn = None \/ mode # "forms")
  /\ Goes(r, IF Proven(req[r]) THEN req[r].what ELSE "answering")
  /\ UNCHANGED <<password, key, keys, sessions, ended>> /\ Reads
NoSuchRoute(r) ==
  /\ At(r, "handling") /\ req[r].what = "password" /\ mode # "forms" /\ Goes(r, "answering")
  /\ UNCHANGED <<password, key, keys, sessions, ended>> /\ Reads

Change == changes < MaxChanges /\ changes' = changes + 1

(* set_password: the sessions it opened end in the same transaction. Then  *)
(* every key too, if asked, and a session for this browser.                *)
SetPassword(r) ==
  /\ At(r, "setting") /\ Change
  /\ password' = password + 1
  /\ Ends({s \in sessions : s.source = "forms"})
  /\ \E revoke \in BOOLEAN :
       req' = [req EXCEPT ![r].at = IF ~ revoke THEN "opening" ELSE IF key # 0 THEN "rotate" ELSE "ending"]
  /\ UNCHANGED <<mode, lists, key, keys, opened, browser, spent, now, asks>>

(* rotate_api_key: the key, then the session that asked bound to it, then  *)
(* the end of the others the old one opened.                               *)
Rotate(r) ==
  /\ At(r, "rotate") /\ Change
  /\ key' = keys + 1 /\ keys' = keys + 1
  /\ req' = [req EXCEPT ![r].at = IF req[r].what = "rotate" THEN "rebinding" ELSE "ending",
                        ![r].shown = keys + 1]
  /\ UNCHANGED <<mode, lists, password, sessions, opened, browser, spent, ended, now, asks>>
Rebind(r) ==
  /\ At(r, "rebinding")
  /\ sessions' = {IF s.id = req[r].id /\ s.source = "apikey"
                  THEN [s EXCEPT !.under = Under("apikey", req[r].shown), !.shown = req[r].shown] ELSE s
                  : s \in sessions}
  /\ Goes(r, "ending")
  /\ UNCHANGED <<password, key, keys, ended>> /\ Reads
EndKeySessions(r) ==
  /\ At(r, "ending")
  /\ LET keep == IF req[r].what = "rotate" THEN req[r].id ELSE 0
     IN Ends({s \in sessions : s.source = "apikey" /\ s.id # keep})
  /\ Goes(r, IF req[r].what = "rotate" THEN "answering" ELSE "opening")
  /\ UNCHANGED <<password, key, keys>> /\ Reads

(* delete_api_key, refused where the key is the only way in.               *)
Withdraw(r) ==
  /\ At(r, "withdraw") /\ Change
  /\ key' = IF mode = "apikey" THEN key ELSE 0
  /\ Goes(r, "answering")
  /\ UNCHANGED <<mode, lists, password, keys, sessions, opened, browser, spent, ended, now, asks>>

-----------------------------------------------------------------------------
(* key_session: the session is bound to the key that was compared.         *)
ShowKey(r) ==
  /\ At(r, "key")
  /\ IF req[r].typed.key # key \/ key = 0 THEN Goes(r, "answering")
     ELSE req' = [req EXCEPT ![r].at = "opening", ![r].under = Under("apikey", key)]
  /\ UNCHANGED <<password, key, keys, sessions, ended>> /\ Reads

(* oidc_start: an attempt for the browser to carry. attempts_to_clear: of  *)
(* those it sent, all but the latest.                                      *)
Later(a, b) == a.expires > b.expires \/ (a.expires = b.expires /\ a.no > b.no)
(* Mutant: the earliest are kept.                                          *)
Earliest(held) == {a \in held : Cardinality({x \in held : Later(a, x)}) < Kept}
Latest(held) == {a \in held : Cardinality({x \in held : Later(x, a)}) < Kept}
Start(r) ==
  /\ At(r, "start")
  /\ req' = [req EXCEPT ![r].at = "answering",
                        ![r].attempt = [no |-> req[r].no, expires |-> now + Flow]]
  /\ UNCHANGED <<password, key, keys, sessions, ended>> /\ Reads

(* oidc_callback: the attempt is read, and the code exchanged by whom the  *)
(* provider lets in, for once.                                             *)
Callback(r) ==
  /\ At(r, "callback")
  /\ Goes(r, IF req[r].attempt.expires > now THEN "exchanging" ELSE "answering")
  /\ UNCHANGED <<password, key, keys, sessions, ended>> /\ Reads
Finish(r) ==
  /\ At(r, "exchanging")
  /\ \/ Goes(r, "answering") /\ UNCHANGED spent
     \/ \E reach \in {"full", "read"} :
          /\ req[r].attempt.no \notin spent
          /\ spent' = spent \cup {req[r].attempt.no}
          /\ req' = [req EXCEPT ![r].at = "opening", ![r].reach = reach, ![r].under = Under("oidc", key)]
  /\ UNCHANGED <<inForce, sessions, opened, browser, ended, counts>>

Open(r) ==
  /\ At(r, "opening") /\ opened < MaxSessions
  /\ sessions' = sessions \cup {Session(req[r])}
  /\ opened' = opened + 1
  /\ req' = [req EXCEPT ![r].at = "answering",
                        ![r].gives = [id |-> opened + 1, left |-> Opening(req[r].source)]]
  /\ UNCHANGED <<inForce, browser, spent, ended, counts>>

-----------------------------------------------------------------------------
(* What the answer leaves in the browser: the session the handler gave, or *)
(* the one renewed before it, never both.                                  *)
Answer(r) ==
  /\ At(r, "answering")
  /\ LET q == req[r]
     IN /\ cookie' = [cookie EXCEPT ![q.by] =
             IF q.clears THEN None
             ELSE IF q.gives # None THEN [id |-> q.gives.id, until |-> now + q.gives.left] ELSE @]
        /\ attempts' = [attempts EXCEPT ![q.by] =
             IF q.what = "start" THEN (@ \ (q.held \ Latest(q.held))) \cup {q.attempt}
             ELSE IF q.what = "callback" THEN @ \ {q.attempt} ELSE @]
        /\ given' = [given EXCEPT ![q.by] =
             IF q.what = "start" THEN @ \cup {q.attempt} ELSE @]
        /\ back' = IF q.what = "callback" THEN back \cup {q.attempt} ELSE back
  /\ req' = [req EXCEPT ![r] = Idling]
  /\ UNCHANGED <<inForce, sessions, opened, spent, ended, counts>>

(* The browser leaves: the request stops where it is, its answer is lost.  *)
HangsUp(r) ==
  /\ ~ At(r, "idle")
  /\ req' = [req EXCEPT ![r] = Idling]
  /\ UNCHANGED <<inForce, sessions, opened, browser, spent, ended, counts>>

-----------------------------------------------------------------------------
(* `routarr reset-account`, and the sweep of sessions past their expiry.   *)
ResetAccount ==
  /\ Change /\ password' = password + 1
  /\ Ends(sessions)
  /\ UNCHANGED <<mode, lists, key, keys, opened, browser, spent, req, now, asks>>
Purge ==
  /\ \E s \in sessions : s.expires <= now
  /\ sessions' = {s \in sessions : s.expires > now}
  /\ UNCHANGED <<inForce, opened, browser, spent, req, ended, counts>>

(* A start, with another configuration perhaps. The mode that asks for a   *)
(* key makes one.                                                          *)
Restart ==
  /\ Change
  /\ mode' \in Modes /\ lists' \in Lists
  /\ IF mode' = "apikey" /\ key = 0 THEN key' = keys + 1 /\ keys' = keys + 1 ELSE UNCHANGED <<key, keys>>
  /\ req' = [r \in Requests |-> Idling]
  /\ UNCHANGED <<password, sessions, opened, browser, spent, ended, now, asks>>

TimePasses == now < MaxTime /\ now' = now + 1
              /\ UNCHANGED <<inForce, sessions, opened, browser, spent, req, ended, asks, changes>>

Init ==
  /\ now = 0 /\ mode \in Modes /\ lists \in Lists
  /\ password = 1 /\ key = 1 /\ keys = 1
  /\ sessions = {} /\ opened = 0
  /\ cookie = [b \in Browsers |-> None] /\ attempts = [b \in Browsers |-> {}]
  /\ given = attempts /\ back = {}
  /\ spent = {} /\ ended = {}
  /\ req = [r \in Requests |-> Idling]
  /\ asks = 0 /\ changes = 0

Handles(r) ==
  \/ Identify(r) \/ Renew(r) \/ RenewFails(r) \/ Use(r) \/ EndAll(r) \/ EndOne(r) \/ Logout(r)
  \/ ReadHash(r) \/ Hashed(r) \/ Prove(r) \/ NoSuchRoute(r) \/ SetPassword(r)
  \/ Rotate(r) \/ Rebind(r) \/ EndKeySessions(r) \/ Withdraw(r)
  \/ ShowKey(r) \/ Start(r) \/ Callback(r) \/ Finish(r) \/ Open(r)
Next ==
  \/ \E r \in Requests, b \in Browsers, what \in Asked : Ask(r, b, what)
  \/ \E r \in Requests : Handles(r) \/ Answer(r) \/ HangsUp(r)
  \/ ResetAccount \/ Purge \/ Restart \/ TimePasses

Spec == Init /\ [][Next]_vars

-----------------------------------------------------------------------------
(* The sessions a request is let through by, as it is.                     *)
LetThrough(r) ==
  IF /\ At(r, "asked") /\ req[r].what # "logout" /\ req[r].id # 0
     /\ req'[r].at \in {"renewing", "handling"}
  THEN Of(req[r].id) ELSE {}

(* No request is let through by a session something ended, whatever        *)
(* renewed it meanwhile, nor, in the mode of the key, by one whose holder  *)
(* never showed the key in force (OpenedUnder, set_password).              *)
EndedStaysEnded ==
  \A r \in Requests : \A s \in LetThrough(r) :
    s.id \notin ended /\ (mode = "apikey" => s.shown = key)

(* Nor by one past its lifetime, or unused for SESSION_DAYS.               *)
EndsInTime ==
  \A r \in Requests : \A s \in LetThrough(r) :
    now < s.created + Lifetime[s.source] /\ now < s.used + Idle

(* A session used lasts until it was not for SESSION_DAYS but one, or to   *)
(* the last hour of its lifetime, whoever renewed it (live_session).       *)
LastsWhileUsed ==
  \A s \in sessions :
    now < Min({s.used + Idle - Slack, s.created + Lifetime[s.source] - LastHour}) => s.expires > now

(* A sign-in begun stays open in its browser beside the ATTEMPTS_KEPT      *)
(* begun after it (attempts_to_clear).                                     *)
AttemptsLast ==
  \A b \in Browsers :
    {a \in given[b] \ back : Cardinality({x \in given[b] : Later(x, a)}) <= Kept} \subseteq attempts[b]

(* A session and a sign-in last as long as they are said to.              *)
LastsAsSaid == LastsWhileUsed /\ AttemptsLast

(* An answer does not put a cookie of an ended session over another's.     *)
(* Refuted: the answer of a request that renewed one, still on its way     *)
(* when a new password gives the browser another.                          *)
NewCookieStays ==
  \A b \in Browsers :
    cookie'[b] # cookie[b] /\ cookie'[b] # None /\ cookie'[b].id \in ended =>
      cookie[b] = None \/ cookie[b].id \in ended
=============================================================================
