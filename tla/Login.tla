-------------------------------- MODULE Login --------------------------------
(***************************************************************************)
(* Login with the identity provider and the sessions it leads to.          *)
(*                                                                         *)
(* The server keeps nothing: what it knows of a login under way, and of a  *)
(* session, is in two cookies it signs.  So the tabs of one browser share  *)
(* one login (FLOW_COOKIE) and one session (SESSION_COOKIE), any replica   *)
(* may answer any request, and a cookie is worth what the replica that     *)
(* reads it can verify.  The random values of a flow (csrf, nonce, PKCE    *)
(* verifier) are drawn together and are represented by its number.         *)
(* Cookies are not dropped at their Max-Age here: a browser that keeps one *)
(* too long must be refused all the same.                                  *)
(*                                                                         *)
(* An operator under "Seeded fault" is a variant of the operator after it, *)
(* with a bug the properties must catch; no action uses it.                *)
(***************************************************************************)
EXTENDS Integers

CONSTANTS
  Browser, Tab,  \* a tab t belongs to the browser BrowserOf(t)
  BrowserOf(_),
  Replica,
  Claims,           \* what the provider may say of a user: a subset of ClaimSet
  allowed_domains,  \* the e-mail domains that may log in; {}: everyone may
  auth_mode,        \* "off", "upload" or "all"
  FLOW_TTL, session_ttl,
  MaxFlow, MaxGen, MaxNow,  \* bounds: logins begun, restarts of one replica, the clock
  None

Domain == {"ours", "other"}

(* verified: Some(true), Some(false), or None when the claim is not sent. *)
ClaimSet ==
  [sub: {"u", "v"}, email: Domain \cup {None}, verified: BOOLEAN \cup {None}]

Flow == 1 .. MaxFlow
Key == {None} \cup (Replica \X (0 .. MaxGen))
FlowState == [csrf: Flow, exp: Nat, key: Key]

(* A session, and for the properties the flow and the time it came from. *)
Session == [sub: {"u", "v"}, exp: Nat, key: Key, of: Flow, born: Nat]

(* When a flow was begun, and by which browser. *)
Begun == [by: Browser, when: Nat]

ASSUME LoginAssumption ==
  /\ \A t \in Tab : BrowserOf(t) \in Browser
  /\ auth_mode \in {"off", "upload", "all"}
  /\ Claims \subseteq ClaimSet /\ allowed_domains \subseteq Domain
  /\ FLOW_TTL \in Nat \ {0} /\ {session_ttl, MaxFlow, MaxGen, MaxNow} \subseteq Nat
  /\ None \notin Browser \cup Tab \cup Replica \cup Domain
  /\ None \notin Flow /\ None \notin ClaimSet \cup FlowState \cup Session \cup Begun

VARIABLES
  now,
  shared,    \* is a session secret configured, the same for all replicas
  gen,       \* gen[r]: how often replica r was restarted
  flow,      \* flow[b]: the flow cookie of browser b, or None
  session,   \* session[b]: the session cookie of browser b, or None
  at,        \* at[t]: where the login in tab t is
  state,     \* state[t]: the flow tab t went to the provider with, or None
  via,       \* via[t]: the replica whose callback waits for the provider
  code,      \* code[n]: "none", or what the provider made of flow n
  claims,    \* claims[n]: who the provider says logged in with flow n, or None
  begun,     \* history: the browser and time flow n was begun in, or None
  minted,    \* history: the flows a session came out of
  excused    \* history: the flows that may fail

cookies == <<flow, session>>
tabs == <<at, state, via>>
provider == <<code, claims>>
history == <<begun, minted, excused>>
vars == <<now, shared, gen, cookies, tabs, provider, history>>

(* The type of every variable. *)
TypeOK ==
  /\ now \in 0 .. MaxNow
  /\ shared \in BOOLEAN
  /\ gen \in [Replica -> 0 .. MaxGen]
  /\ flow \in [Browser -> FlowState \cup {None}]
  /\ session \in [Browser -> Session \cup {None}]
  /\ at \in [Tab -> {"idle", "provider", "returning", "exchange"}]
  /\ state \in [Tab -> Flow \cup {None}]
  /\ via \in [Tab -> Replica \cup {None}]
  /\ code \in [Flow -> {"none", "issued", "used", "error"}]
  /\ claims \in [Flow -> ClaimSet \cup {None}]
  /\ begun \in [Flow -> Begun \cup {None}]
  /\ minted \subseteq Flow /\ excused \subseteq Flow

Init ==
  /\ now = 0
  /\ shared \in BOOLEAN
  /\ gen = [r \in Replica |-> 0]
  /\ flow = [b \in Browser |-> None] /\ session = [b \in Browser |-> None]
  /\ at = [t \in Tab |-> "idle"] /\ state = [t \in Tab |-> None]
  /\ via = [t \in Tab |-> None]
  /\ code = [n \in Flow |-> "none"] /\ claims = [n \in Flow |-> None]
  /\ begun = [n \in Flow |-> None] /\ minted = {} /\ excused = {}

Goto(t, step) == at' = [at EXCEPT ![t] = step]
BegunIn(b) == {n \in Flow : begun[n] # None /\ begun[n].by = b}

(* Seeded fault: the key is drawn again whenever a signer is asked for. *)
key_drawn_again(r) == <<r, gen[r], now>>

(* Seeded fault: the configured secret is mixed with one drawn at start-up. *)
key_of_replica(r) == <<r, gen[r]>>

(* SessionSigner::new: the configured secret, or a key drawn at start-up. *)
key(r) == IF shared THEN None ELSE <<r, gen[r]>>

(* Seeded fault: the tag of a cookie is not looked at. *)
verify_nothing(r, cookie) == cookie # None

verify(r, cookie) == cookie # None /\ cookie.key = key(r)

-----------------------------------------------------------------------------
(* GET /auth/login: a fresh flow, which replaces the one in the cookie. *)
login(t, r) ==
  LET b == BrowserOf(t) IN
  /\ auth_mode # "off"
  /\ at[t] = "idle"
  /\ \E n \in Flow :
       /\ \A m \in Flow : begun[m] = None <=> m >= n
       /\ flow' = [flow EXCEPT ![b] = [csrf |-> n, exp |-> now + FLOW_TTL, key |-> key(r)]]
       /\ state' = [state EXCEPT ![t] = n]
       /\ begun' = [begun EXCEPT ![n] = [by |-> b, when |-> now]]
  /\ Goto(t, "provider")
  /\ excused' = excused \cup BegunIn(b)
  /\ UNCHANGED <<now, shared, gen, session, via, provider, minted>>

(* The provider signs the user in, or does not, and sends the tab back. *)
Provider(t) ==
  LET n == state[t] IN
  /\ at[t] = "provider"
  /\ \/ /\ \E who \in Claims : claims' = [claims EXCEPT ![n] = who]
        /\ code' = [code EXCEPT ![n] = "issued"]
        /\ UNCHANGED excused
     \/ /\ code' = [code EXCEPT ![n] = "error"]
        /\ excused' = excused \cup {n}
        /\ UNCHANGED claims
  /\ Goto(t, "returning")
  /\ UNCHANGED <<now, shared, gen, cookies, state, via, begun, minted>>

(* The address the provider sent a tab back to is opened again, anywhere. *)
OpenAgain(t, n) ==
  /\ at[t] = "idle" /\ code[n] # "none"
  /\ Goto(t, "returning")
  /\ state' = [state EXCEPT ![t] = n]
  /\ UNCHANGED <<now, shared, gen, cookies, via, provider, history>>

(* The tab shows an answer of callback: a redirect, or an error. *)
Answered(t) ==
  /\ Goto(t, "idle")
  /\ state' = [state EXCEPT ![t] = None] /\ via' = [via EXCEPT ![t] = None]

(* Seeded fault: a login that is refused clears the session as well. *)
RefuseSignsOut(t, n) ==
  /\ Answered(t)
  /\ excused' = excused \cup n
  /\ session' = [session EXCEPT ![BrowserOf(t)] = None]
  /\ UNCHANGED <<flow, minted>>

Refuse(t, n) ==
  /\ Answered(t)
  /\ excused' = excused \cup n
  /\ UNCHANGED <<cookies, minted>>

(***************************************************************************)
(* GET /auth/callback up to the request to the token endpoint: the flow    *)
(* cookie has to be there, signed by a key this replica has, fresh, and of *)
(* the flow that comes back.                                               *)
(***************************************************************************)
(* Seeded fault: the state that comes back is not compared. *)
FlowFitsAnyState(t, r) ==
  LET b == BrowserOf(t) IN verify(r, flow[b]) /\ flow[b].exp > now

(* Seeded fault: the flow expires one tick early. *)
FlowFitsTooShort(t, r) ==
  LET b == BrowserOf(t)
  IN verify(r, flow[b]) /\ flow[b].exp > now + 1 /\ flow[b].csrf = state[t]

FlowFits(t, r) ==
  LET b == BrowserOf(t)
  IN verify(r, flow[b]) /\ flow[b].exp > now /\ flow[b].csrf = state[t]

callback(t, r) ==
  /\ at[t] = "returning"
  /\ IF code[state[t]] # "error" /\ FlowFits(t, r)
     THEN Goto(t, "exchange") /\ via' = [via EXCEPT ![t] = r]
          /\ UNCHANGED <<cookies, state, minted, excused>>
     ELSE Refuse(t, {})
  /\ UNCHANGED <<now, shared, gen, provider, begun>>

(* The allow-list trusts no e-mail address the provider did not verify. *)
authorize_email(who) ==
  \/ allowed_domains = {}
  \/ who.email \in allowed_domains /\ who.verified = TRUE

(* Seeded fault: the flow cookie is left in the browser. *)
FlowKept(b) == flow

FlowCleared(b) == [flow EXCEPT ![b] = None]

(***************************************************************************)
(* The token endpoint answers.  It honours a code once.  The rest of       *)
(* callback follows without an await: the allow-list, the session, and the *)
(* flow cookie cleared, whichever flow is in it by now.                    *)
(***************************************************************************)
FinishLogin(t) ==
  LET b == BrowserOf(t)  n == state[t] IN
  /\ at[t] = "exchange"
  /\ code' = [code EXCEPT ![n] = "used"]
  /\ IF code[n] = "issued" /\ authorize_email(claims[n])
     THEN /\ session' = [session EXCEPT ![b] =
               [sub |-> claims[n].sub, exp |-> now + session_ttl, key |-> key(via[t]),
                of |-> n, born |-> now]]
          /\ flow' = FlowCleared(b)
          /\ minted' = minted \cup {n}
          /\ excused' = excused \cup BegunIn(b)
          /\ Answered(t)
     ELSE Refuse(t, {})
  /\ UNCHANGED <<now, shared, gen, claims, begun>>

(* The exchange fails or times out, before or after the code was honoured. *)
ExchangeFails(t) ==
  /\ at[t] = "exchange"
  /\ \E c \in {code[state[t]], "used"} : code' = [code EXCEPT ![state[t]] = c]
  /\ Refuse(t, {state[t]})
  /\ UNCHANGED <<now, shared, gen, claims, begun>>

(* GET /auth/logout clears both cookies; a callback that waits goes on. *)
logout(b) ==
  /\ flow' = FlowCleared(b) /\ session' = [session EXCEPT ![b] = None]
  /\ excused' = excused \cup BegunIn(b)
  /\ UNCHANGED <<now, shared, gen, tabs, provider, begun, minted>>

-----------------------------------------------------------------------------
(* A request to the API changes nothing here: who it is from at replica r, *)
(* and whether the route lets it in.                                       *)

(* Seeded fault: a session is good for as long as its signature is. *)
current_session_unexpired(b, r) == IF verify(r, session[b]) THEN session[b] ELSE None

current_session(b, r) ==
  IF verify(r, session[b]) /\ session[b].exp > now THEN session[b] ELSE None

enforced(needed_at) ==
  \/ auth_mode = "all"
  \/ auth_mode = "upload" /\ needed_at = "upload"

(* AuthedUser (needed_at = "upload") and PublicOrAuthedUser ("all"). *)
require(b, r, needed_at) ==
  IF enforced(needed_at) /\ current_session(b, r) = None
  THEN "Unauthorized" ELSE "admitted"

(* A replica restarts: callbacks it was waiting with are lost. *)
Restart(r) ==
  /\ gen[r] < MaxGen /\ \A q \in Replica \ {r} : gen[q] = 0
  /\ gen' = [gen EXCEPT ![r] = @ + 1]
  /\ at' = [t \in Tab |-> IF via[t] = r THEN "idle" ELSE at[t]]
  /\ state' = [t \in Tab |-> IF via[t] = r THEN None ELSE state[t]]
  /\ via' = [t \in Tab |-> IF via[t] = r THEN None ELSE via[t]]
  /\ excused' = excused \cup {state[t] : t \in {t \in Tab : via[t] = r}}
  /\ UNCHANGED <<now, shared, cookies, provider, begun, minted>>

Tick ==
  /\ now < MaxNow /\ now' = now + 1
  /\ excused' = excused \cup {n \in Flow : begun[n] # None /\ begun[n].when + FLOW_TTL <= now'}
  /\ UNCHANGED <<shared, gen, cookies, tabs, provider, begun, minted>>

Next ==
  \/ \E t \in Tab :
       \/ \E r \in Replica : login(t, r) \/ callback(t, r)
       \/ Provider(t) \/ FinishLogin(t) \/ ExchangeFails(t)
       \/ \E n \in Flow : OpenAgain(t, n)
  \/ \E b \in Browser : logout(b)
  \/ \E r \in Replica : Restart(r)
  \/ Tick

Spec == Init /\ [][Next]_vars

-----------------------------------------------------------------------------
(***************************************************************************)
(* A browser holds a session only out of a login that was begun in that    *)
(* same browser, however the addresses of callbacks travelled between tabs *)
(* and browsers and however its own logins overlapped (oidc.rs:255).       *)
(***************************************************************************)
SessionIsItsOwn ==
  \A b \in Browser : session[b] # None => session[b].of \in BegunIn(b)

(***************************************************************************)
(* A login that led to a session is over: whatever is sent to the callback *)
(* again, the provider is not asked about it a second time (oidc.rs:302).  *)
(***************************************************************************)
FinishedOnce ==
  [][\A t \in Tab : at[t] = "returning" /\ at'[t] = "exchange" => state[t] \notin minted]_vars

(* Who may not log in: with an allow-list, whoever has no address on it    *)
(* that the provider verified (oidc.rs:124-126).                           *)
NotOnList(who) ==
  allowed_domains # {} /\ (who.email \notin allowed_domains \/ who.verified # TRUE)

(***************************************************************************)
(* With a shared secret a login is refused for a cause only: the provider  *)
(* said no, its user is not on the allow-list, the ten minutes are over, a *)
(* request was lost, it came back to another browser than it left, or the  *)
(* same browser began, finished or ended another one meanwhile.  No        *)
(* restart, no change of replica between its two requests and no earlier   *)
(* try that was itself refused is a cause (oidc.rs:6-8).                   *)
(***************************************************************************)
RefusedForCause ==
  [][\A t \in Tab :
       at[t] \in {"returning", "exchange"} /\ at'[t] = "idle" /\ minted' = minted =>
         LET n == state[t] IN
         \/ ~shared \/ n \in excused' \/ BrowserOf(t) # begun[n].by
         \/ claims[n] # None /\ NotOnList(claims[n])]_vars

(***************************************************************************)
(* Who an enforced route would let in logged in less than session_ttl ago, *)
(* in this browser, and, without a shared secret, at this very replica     *)
(* since its last restart (auth.rs:77-79, 189).                            *)
(***************************************************************************)
AdmittedInTime ==
  \A b \in Browser, r \in Replica, needed_at \in {"upload", "all"} :
    enforced(needed_at) /\ require(b, r, needed_at) = "admitted" =>
      /\ session[b] # None /\ now - session[b].born < session_ttl
      /\ shared \/ session[b].key = <<r, gen[r]>>

(***************************************************************************)
(* With a shared secret, who is let in at one replica is let in at every   *)
(* replica from then on, until the session's time is up or its browser     *)
(* logs out: no restart, no other replica, and no login that is begun,     *)
(* refused or lost meanwhile ends it (auth.rs:77-79 "sessions do not       *)
(* survive a restart and are not shared between replicas" is said of a     *)
(* server without one).                                                    *)
(***************************************************************************)
SignedInStays ==
  [][\A b \in Browser, r, s \in Replica, needed_at \in {"upload", "all"} :
       /\ shared /\ enforced(needed_at)
       /\ require(b, r, needed_at) = "admitted"
       /\ require(b, s, needed_at)' # "admitted"
       => logout(b) \/ (session'[b] # None /\ session'[b].exp <= now')]_vars

=============================================================================
