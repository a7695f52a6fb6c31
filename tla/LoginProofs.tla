----------------------------- MODULE LoginProofs -----------------------------
(* Whose session it is, when a login may be refused and when a callback may *)
(* ask the provider: for any number of tabs, browsers, replicas and flows.  *)
EXTENDS Login, TLAPS

-----------------------------------------------------------------------------
(* The inductive invariant.                                                 *)

(* A tab on its way has a flow; its callback went on in the right browser.  *)
TabOnItsWay(t) ==
  /\ at[t] = "idle" <=> state[t] = None
  /\ at[t] = "exchange" <=> via[t] # None
  /\ state[t] # None => begun[state[t]] # None
  /\ at[t] = "provider" => code[state[t]] = "none"
  /\ at[t] = "returning" => code[state[t]] # "none"
  /\ at[t] = "exchange" =>
       code[state[t]] \in {"issued", "used"} /\ begun[state[t]].by = BrowserOf(t)

(* Until the provider answers, one tab only is there with a flow. *)
FirstAtProvider(t) ==
  at[t] = "provider" => \A u \in Tab : state[u] = state[t] => u = t

(* What the provider made of a flow, and what came of it. *)
ProviderSaid(n) ==
  /\ code[n] # "none" => begun[n] # None
  /\ claims[n] # None <=> code[n] \in {"issued", "used"}
  /\ code[n] = "error" => n \in excused
  /\ n \in minted => code[n] = "used"
  /\ code[n] = "used" => n \in excused \/ NotOnList(claims[n])

(* The flow cookie of a browser is of its own last flow, not yet a session. *)
FlowCookie(b) ==
  flow[b] # None =>
    /\ flow[b].csrf \in BegunIn(b) \ minted
    /\ flow[b].exp = begun[flow[b].csrf].when + FLOW_TTL
    /\ shared => flow[b].key = None

(* The session cookie of a browser is of one of its flows. *)
SessionCookie(b) ==
  session[b] # None =>
    /\ session[b].of \in BegunIn(b)
    /\ session[b].exp = session[b].born + session_ttl

(* A flow that may not fail is the one in the cookie of its browser, and fresh. *)
StillGood(n) ==
  begun[n] # None /\ n \notin excused =>
    /\ flow[begun[n].by] # None /\ flow[begun[n].by].csrf = n
    /\ now < begun[n].when + FLOW_TTL

IInv ==
  /\ TypeOK
  /\ \A t \in Tab : TabOnItsWay(t) /\ FirstAtProvider(t)
  /\ \A n \in Flow : ProviderSaid(n) /\ StillGood(n)
  /\ \A b \in Browser : FlowCookie(b) /\ SessionCookie(b)

-----------------------------------------------------------------------------
(* Lemmas about the operators the actions are built from. *)

LEMMA KeyType ==
  ASSUME TypeOK, NEW r \in Replica
  PROVE  key(r) \in Key /\ (shared => key(r) = None)
  BY DEF TypeOK, key, Key

LEMMA BegunType ==
  ASSUME TypeOK, NEW n \in Flow, begun[n] # None
  PROVE  begun[n].by \in Browser /\ begun[n].when \in Nat
  BY DEF TypeOK, Begun

(* Browsers and flows are told apart by who began what. *)
LEMMA BegunByOne ==
  ASSUME TypeOK, NEW n \in Flow, NEW b \in Browser
  PROVE  n \in BegunIn(b) <=> begun[n] # None /\ begun[n].by = b
  BY DEF BegunIn

(* The cookies a callback and a login set are well-formed. *)
LEMMA CookieType ==
  ASSUME TypeOK, NEW r \in Replica, NEW n \in Flow, NEW s \in {"u", "v"}
  PROVE  /\ [csrf |-> n, exp |-> now + FLOW_TTL, key |-> key(r)] \in FlowState
         /\ [sub |-> s, exp |-> now + session_ttl, key |-> key(r), of |-> n, born |-> now]
              \in Session
         /\ [csrf |-> n, exp |-> now + FLOW_TTL, key |-> key(r)] # None
<1>1. now \in Nat /\ now + FLOW_TTL \in Nat /\ now + session_ttl \in Nat
  BY LoginAssumption DEF TypeOK
<1>2. [csrf |-> n, exp |-> now + FLOW_TTL, key |-> key(r)] \in FlowState
  BY <1>1, KeyType DEF FlowState
<1> QED BY <1>1, <1>2, KeyType, LoginAssumption DEF Session

(* A login takes a flow that nobody began, and a cookie of it. *)
LEMMA LoginDoes ==
  ASSUME TypeOK, NEW t \in Tab, NEW r \in Replica, login(t, r)
  PROVE  \E n \in Flow :
           /\ at[t] = "idle" /\ begun[n] = None
           /\ flow' = [flow EXCEPT ![BrowserOf(t)] =
                         [csrf |-> n, exp |-> now + FLOW_TTL, key |-> key(r)]]
           /\ state' = [state EXCEPT ![t] = n] /\ at' = [at EXCEPT ![t] = "provider"]
           /\ begun' = [begun EXCEPT ![n] = [by |-> BrowserOf(t), when |-> now]]
           /\ excused' = excused \cup BegunIn(BrowserOf(t))
           /\ UNCHANGED <<now, shared, gen, session, via, code, claims, minted>>
<1>1. PICK n \in Flow :
        /\ \A m \in Flow : begun[m] = None <=> m >= n
        /\ flow' = [flow EXCEPT ![BrowserOf(t)] =
                      [csrf |-> n, exp |-> now + FLOW_TTL, key |-> key(r)]]
        /\ state' = [state EXCEPT ![t] = n]
        /\ begun' = [begun EXCEPT ![n] = [by |-> BrowserOf(t), when |-> now]]
  BY Zenon DEF login
<1>2. begun[n] = None
  <2>1. n >= n
    BY DEF Flow
  <2> QED BY <1>1, <2>1
<1>3. /\ at[t] = "idle" /\ at' = [at EXCEPT ![t] = "provider"]
      /\ excused' = excused \cup BegunIn(BrowserOf(t))
      /\ UNCHANGED <<now, shared, gen, session, via, code, claims, minted>>
  BY DEF login, Goto, provider
<1> QED BY <1>1, <1>2, <1>3, Zenon

(* The allow-list in the code and who may not log in are each other's opposite. *)
LEMMA ListedOrNot ==
  ASSUME NEW who
  PROVE  authorize_email(who) <=> ~NotOnList(who)
  BY Zenon DEF authorize_email, NotOnList

(* What the answer of the token endpoint makes of a flow. *)
LEMMA FinishDoes ==
  ASSUME IInv, NEW t \in Tab, FinishLogin(t)
  PROVE  LET n == state[t] IN
         /\ n \in Flow /\ begun[n] # None /\ begun[n].by = BrowserOf(t)
         /\ at[t] = "exchange" /\ at' = [at EXCEPT ![t] = "idle"]
         /\ code' = [code EXCEPT ![n] = "used"]
         /\ UNCHANGED <<claims, begun>>
         /\ \/ minted' = minted \cup {n} /\ excused' = excused \cup BegunIn(BrowserOf(t))
            \/ /\ minted' = minted /\ excused' = excused
               /\ code[n] = "used" \/ NotOnList(claims[n])
<1> DEFINE n == state[t]
<1>1. /\ at[t] = "exchange" /\ n \in Flow /\ begun[n] # None
      /\ begun[n].by = BrowserOf(t) /\ code[n] \in {"issued", "used"}
  BY DEF FinishLogin, IInv, TypeOK, TabOnItsWay
<1>2. /\ at' = [at EXCEPT ![t] = "idle"] /\ code' = [code EXCEPT ![n] = "used"]
      /\ UNCHANGED <<claims, begun>>
  BY DEF FinishLogin, Refuse, Answered, Goto
<1>3. CASE code[n] = "issued" /\ authorize_email(claims[n])
  BY <1>1, <1>2, <1>3 DEF FinishLogin
<1>4. CASE ~(code[n] = "issued" /\ authorize_email(claims[n]))
  <2>1. code[n] = "used" \/ NotOnList(claims[n])
    BY <1>1, <1>4, ListedOrNot
  <2>2. minted' = minted /\ excused' = excused
    BY <1>4 DEF FinishLogin, Refuse
  <2> QED BY <1>1, <1>2, <2>1, <2>2
<1> QED BY <1>3, <1>4

LEMMA Initially == Init => IInv
<1> SUFFICES ASSUME Init PROVE IInv
  OBVIOUS
<1> USE LoginAssumption DEF Init
<1>1. TypeOK
  BY DEF TypeOK
<1>2. ASSUME NEW t \in Tab PROVE TabOnItsWay(t) /\ FirstAtProvider(t)
  BY <1>2 DEF TabOnItsWay, FirstAtProvider
<1>3. ASSUME NEW n \in Flow PROVE ProviderSaid(n) /\ StillGood(n)
  BY <1>3 DEF ProviderSaid, StillGood
<1>4. ASSUME NEW b \in Browser PROVE FlowCookie(b) /\ SessionCookie(b)
  BY <1>4 DEF FlowCookie, SessionCookie
<1> QED BY <1>1, <1>2, <1>3, <1>4 DEF IInv

-----------------------------------------------------------------------------
(* The step lemmas: one for each part, one step of the proof for each action. *)

(* Every step keeps the types. *)
LEMMA TypeStep == IInv /\ [Next]_vars => TypeOK'
<1> SUFFICES ASSUME IInv, [Next]_vars PROVE TypeOK'
  OBVIOUS
<1> USE LoginAssumption DEF IInv, TypeOK
<1>1. ASSUME NEW t \in Tab, NEW r \in Replica, login(t, r) PROVE TypeOK'
  <2>1. PICK n \in Flow :
          /\ at[t] = "idle" /\ begun[n] = None
          /\ flow' = [flow EXCEPT ![BrowserOf(t)] =
                        [csrf |-> n, exp |-> now + FLOW_TTL, key |-> key(r)]]
          /\ state' = [state EXCEPT ![t] = n] /\ at' = [at EXCEPT ![t] = "provider"]
          /\ begun' = [begun EXCEPT ![n] = [by |-> BrowserOf(t), when |-> now]]
          /\ excused' = excused \cup BegunIn(BrowserOf(t))
          /\ UNCHANGED <<now, shared, gen, session, via, code, claims, minted>>
    BY <1>1, LoginDoes DEF IInv
  <2>2. [csrf |-> n, exp |-> now + FLOW_TTL, key |-> key(r)] \in FlowState
    BY CookieType
  <2>3. [by |-> BrowserOf(t), when |-> now] \in Begun
    BY LoginAssumption DEF Begun
  <2>4. BegunIn(BrowserOf(t)) \subseteq Flow
    BY DEF BegunIn
  <2> QED BY <2>1, <2>2, <2>3, <2>4
<1>2. ASSUME NEW t \in Tab, NEW r \in Replica, callback(t, r) PROVE TypeOK'
  BY <1>2 DEF callback, Goto, Refuse, Answered, cookies, provider
<1>3. ASSUME NEW t \in Tab, Provider(t) PROVE TypeOK'
  <2>1. state[t] \in Flow
    BY <1>3 DEF Provider, TabOnItsWay
  <2> QED BY <1>3, <2>1 DEF Provider, Goto, cookies
<1>4. ASSUME NEW t \in Tab, FinishLogin(t) PROVE TypeOK'
  <2>1. state[t] \in Flow /\ via[t] \in Replica /\ BrowserOf(t) \in Browser
    BY <1>4 DEF FinishLogin, TabOnItsWay
  <2>2. CASE code[state[t]] = "issued" /\ authorize_email(claims[state[t]])
    <3>1. claims[state[t]].sub \in {"u", "v"}
      BY <2>1, <2>2 DEF ProviderSaid, ClaimSet
    <3>2. [sub |-> claims[state[t]].sub, exp |-> now + session_ttl, key |-> key(via[t]),
           of |-> state[t], born |-> now] \in Session
      BY <2>1, <3>1, CookieType
    <3>3. BegunIn(BrowserOf(t)) \subseteq Flow
      BY DEF BegunIn
    <3> QED BY <1>4, <2>1, <2>2, <3>2, <3>3 DEF FinishLogin, Answered, Goto, FlowCleared
  <2>3. CASE ~(code[state[t]] = "issued" /\ authorize_email(claims[state[t]]))
    BY <1>4, <2>1, <2>3 DEF FinishLogin, Refuse, Answered, Goto, cookies
  <2> QED BY <2>2, <2>3
<1>5. ASSUME NEW t \in Tab, ExchangeFails(t) PROVE TypeOK'
  <2>1. state[t] \in Flow
    BY <1>5 DEF ExchangeFails, TabOnItsWay
  <2> QED BY <1>5, <2>1 DEF ExchangeFails, Refuse, Answered, Goto, cookies
<1>6. ASSUME NEW t \in Tab, NEW n \in Flow, OpenAgain(t, n) PROVE TypeOK'
  BY <1>6 DEF OpenAgain, Goto, cookies, provider, history
<1>7. ASSUME NEW b \in Browser, logout(b) PROVE TypeOK'
  <2>1. BegunIn(b) \subseteq Flow
    BY DEF BegunIn
  <2> QED BY <1>7, <2>1 DEF logout, FlowCleared, tabs, provider
<1>8. ASSUME NEW r \in Replica, Restart(r) PROVE TypeOK'
  <2>1. \A t \in Tab : via[t] = r => state[t] \in Flow
    BY DEF TabOnItsWay
  <2>2. gen' \in [Replica -> 0 .. MaxGen]
    BY <1>8 DEF Restart
  <2>3. /\ at' \in [Tab -> {"idle", "provider", "returning", "exchange"}]
        /\ state' \in [Tab -> Flow \cup {None}] /\ via' \in [Tab -> Replica \cup {None}]
        /\ excused' \subseteq Flow
    BY <1>8, <2>1 DEF Restart
  <2> QED BY <1>8, <2>2, <2>3 DEF Restart, cookies, provider
<1>9. CASE Tick
  BY <1>9 DEF Tick, cookies, tabs, provider
<1>10. CASE UNCHANGED vars
  BY <1>10 DEF vars, cookies, tabs, provider, history
<1> QED BY <1>1, <1>2, <1>3, <1>4, <1>5, <1>6, <1>7, <1>8, <1>9, <1>10 DEF Next

(* A callback goes on in the browser whose cookie holds the flow, and a tab leaves with its flow. *)
LEMMA TabStep == IInv /\ [Next]_vars => (\A u \in Tab : TabOnItsWay(u))'
<1> SUFFICES ASSUME IInv, [Next]_vars, NEW u \in Tab PROVE TabOnItsWay(u)'
  OBVIOUS
<1> USE LoginAssumption DEF IInv, TypeOK, TabOnItsWay, FirstAtProvider, FlowFits, verify,
           FlowCookie, ProviderSaid, BegunIn
<1>1. ASSUME NEW t \in Tab, NEW r \in Replica, login(t, r) PROVE TabOnItsWay(u)'
  <2>1. PICK n \in Flow :
          /\ at[t] = "idle" /\ begun[n] = None
          /\ flow' = [flow EXCEPT ![BrowserOf(t)] =
                        [csrf |-> n, exp |-> now + FLOW_TTL, key |-> key(r)]]
          /\ state' = [state EXCEPT ![t] = n] /\ at' = [at EXCEPT ![t] = "provider"]
          /\ begun' = [begun EXCEPT ![n] = [by |-> BrowserOf(t), when |-> now]]
          /\ excused' = excused \cup BegunIn(BrowserOf(t))
          /\ UNCHANGED <<now, shared, gen, session, via, code, claims, minted>>
    BY <1>1, LoginDoes DEF IInv
  <2>2. [by |-> BrowserOf(t), when |-> now] # None
    BY LoginAssumption DEF Begun
  <2>3. code[n] = "none" /\ n # None
    BY <2>1
  <2>4. CASE u = t
    BY <2>1, <2>2, <2>3, <2>4
  <2>5. CASE u # t
    BY <2>1, <2>5
  <2> QED BY <2>4, <2>5
<1>2. ASSUME NEW t \in Tab, NEW r \in Replica, callback(t, r) PROVE TabOnItsWay(u)'
  BY <1>2 DEF callback, Goto, Refuse, Answered, cookies, provider
<1>3. ASSUME NEW t \in Tab, Provider(t) PROVE TabOnItsWay(u)'
  BY <1>3 DEF Provider, Goto, cookies
<1>4. ASSUME NEW t \in Tab, FinishLogin(t) PROVE TabOnItsWay(u)'
  BY <1>4 DEF FinishLogin, Refuse, Answered, Goto, FlowCleared, cookies
<1>5. ASSUME NEW t \in Tab, ExchangeFails(t) PROVE TabOnItsWay(u)'
  BY <1>5 DEF ExchangeFails, Refuse, Answered, Goto, cookies
<1>6. ASSUME NEW t \in Tab, NEW n \in Flow, OpenAgain(t, n) PROVE TabOnItsWay(u)'
  BY <1>6 DEF OpenAgain, Goto, cookies, provider, history
<1>7. ASSUME NEW b \in Browser, logout(b) PROVE TabOnItsWay(u)'
  BY <1>7 DEF logout, FlowCleared, tabs, provider
<1>8. ASSUME NEW r \in Replica, Restart(r) PROVE TabOnItsWay(u)'
  BY <1>8 DEF Restart, cookies, provider
<1>9. CASE Tick
  BY <1>9 DEF Tick, cookies, tabs, provider
<1>10. CASE UNCHANGED vars
  BY <1>10 DEF vars, cookies, tabs, provider, history
<1> QED BY <1>1, <1>2, <1>3, <1>4, <1>5, <1>6, <1>7, <1>8, <1>9, <1>10 DEF Next

(* A new flow is in no other tab, and the address of a flow comes with its answer only. *)
LEMMA FirstStep == IInv /\ [Next]_vars => (\A u \in Tab : FirstAtProvider(u))'
<1> SUFFICES ASSUME IInv, [Next]_vars, NEW u \in Tab PROVE FirstAtProvider(u)'
  OBVIOUS
<1> USE LoginAssumption DEF IInv, TypeOK, TabOnItsWay, FirstAtProvider, ProviderSaid
<1>1. ASSUME NEW t \in Tab, NEW r \in Replica, login(t, r) PROVE FirstAtProvider(u)'
  <2>1. PICK n \in Flow :
          /\ at[t] = "idle" /\ begun[n] = None
          /\ flow' = [flow EXCEPT ![BrowserOf(t)] =
                        [csrf |-> n, exp |-> now + FLOW_TTL, key |-> key(r)]]
          /\ state' = [state EXCEPT ![t] = n] /\ at' = [at EXCEPT ![t] = "provider"]
          /\ begun' = [begun EXCEPT ![n] = [by |-> BrowserOf(t), when |-> now]]
          /\ excused' = excused \cup BegunIn(BrowserOf(t))
          /\ UNCHANGED <<now, shared, gen, session, via, code, claims, minted>>
    BY <1>1, LoginDoes DEF IInv
  <2> QED BY <2>1
<1>2. ASSUME NEW t \in Tab, NEW r \in Replica, callback(t, r) PROVE FirstAtProvider(u)'
  BY <1>2 DEF callback, Goto, Refuse, Answered, cookies, provider
<1>3. ASSUME NEW t \in Tab, Provider(t) PROVE FirstAtProvider(u)'
  BY <1>3 DEF Provider, Goto, cookies
<1>4. ASSUME NEW t \in Tab, FinishLogin(t) PROVE FirstAtProvider(u)'
  BY <1>4 DEF FinishLogin, Refuse, Answered, Goto, FlowCleared, cookies
<1>5. ASSUME NEW t \in Tab, ExchangeFails(t) PROVE FirstAtProvider(u)'
  BY <1>5 DEF ExchangeFails, Refuse, Answered, Goto, cookies
<1>6. ASSUME NEW t \in Tab, NEW n \in Flow, OpenAgain(t, n) PROVE FirstAtProvider(u)'
  BY <1>6 DEF OpenAgain, Goto, cookies, provider, history
<1>7. ASSUME NEW b \in Browser, logout(b) PROVE FirstAtProvider(u)'
  BY <1>7 DEF logout, FlowCleared, tabs, provider
<1>8. ASSUME NEW r \in Replica, Restart(r) PROVE FirstAtProvider(u)'
  BY <1>8 DEF Restart, cookies, provider
<1>9. CASE Tick
  BY <1>9 DEF Tick, cookies, tabs, provider
<1>10. CASE UNCHANGED vars
  BY <1>10 DEF vars, cookies, tabs, provider, history
<1> QED BY <1>1, <1>2, <1>3, <1>4, <1>5, <1>6, <1>7, <1>8, <1>9, <1>10 DEF Next

(* Only the one tab that is at the provider gets an answer, and only an honoured code a session. *)
LEMMA ProviderStep == IInv /\ [Next]_vars => (\A m \in Flow : ProviderSaid(m))'
<1> SUFFICES ASSUME IInv, [Next]_vars, NEW m \in Flow PROVE ProviderSaid(m)'
  OBVIOUS
<1> USE LoginAssumption DEF IInv, TypeOK, TabOnItsWay, ProviderSaid, Begun
<1>1. ASSUME NEW t \in Tab, NEW r \in Replica, login(t, r) PROVE ProviderSaid(m)'
  <2>1. PICK n \in Flow :
          /\ at[t] = "idle" /\ begun[n] = None
          /\ flow' = [flow EXCEPT ![BrowserOf(t)] =
                        [csrf |-> n, exp |-> now + FLOW_TTL, key |-> key(r)]]
          /\ state' = [state EXCEPT ![t] = n] /\ at' = [at EXCEPT ![t] = "provider"]
          /\ begun' = [begun EXCEPT ![n] = [by |-> BrowserOf(t), when |-> now]]
          /\ excused' = excused \cup BegunIn(BrowserOf(t))
          /\ UNCHANGED <<now, shared, gen, session, via, code, claims, minted>>
    BY <1>1, LoginDoes DEF IInv
  <2> QED BY <2>1
<1>2. ASSUME NEW t \in Tab, NEW r \in Replica, callback(t, r) PROVE ProviderSaid(m)'
  BY <1>2 DEF callback, Goto, Refuse, Answered, cookies, provider
<1>3. ASSUME NEW t \in Tab, Provider(t) PROVE ProviderSaid(m)'
  BY <1>3 DEF Provider, Goto, cookies
<1>4. ASSUME NEW t \in Tab, FinishLogin(t) PROVE ProviderSaid(m)'
  <2>1. state[t] \in BegunIn(BrowserOf(t))
    BY <1>4, FinishDoes DEF BegunIn
  <2> QED BY <1>4, <2>1, FinishDoes
<1>5. ASSUME NEW t \in Tab, ExchangeFails(t) PROVE ProviderSaid(m)'
  BY <1>5 DEF ExchangeFails, Refuse, Answered, Goto, cookies
<1>6. ASSUME NEW t \in Tab, NEW n \in Flow, OpenAgain(t, n) PROVE ProviderSaid(m)'
  BY <1>6 DEF OpenAgain, Goto, cookies, provider, history
<1>7. ASSUME NEW b \in Browser, logout(b) PROVE ProviderSaid(m)'
  BY <1>7 DEF logout, FlowCleared, tabs, provider
<1>8. ASSUME NEW r \in Replica, Restart(r) PROVE ProviderSaid(m)'
  BY <1>8 DEF Restart, cookies, provider
<1>9. CASE Tick
  BY <1>9 DEF Tick, cookies, tabs, provider
<1>10. CASE UNCHANGED vars
  BY <1>10 DEF vars, cookies, tabs, provider, history
<1> QED BY <1>1, <1>2, <1>3, <1>4, <1>5, <1>6, <1>7, <1>8, <1>9, <1>10 DEF Next

(* Whatever takes a flow out of the cookie of its browser, or lets it grow old, is a cause. *)
LEMMA GoodStep == IInv /\ [Next]_vars => (\A m \in Flow : StillGood(m))'
<1> SUFFICES ASSUME IInv, [Next]_vars, NEW m \in Flow PROVE StillGood(m)'
  OBVIOUS
<1> USE LoginAssumption DEF IInv, TypeOK, StillGood, TabOnItsWay, Begun, FlowState, BegunIn
<1>1. ASSUME NEW t \in Tab, NEW r \in Replica, login(t, r) PROVE StillGood(m)'
  <2>1. PICK n \in Flow :
          /\ at[t] = "idle" /\ begun[n] = None
          /\ flow' = [flow EXCEPT ![BrowserOf(t)] =
                        [csrf |-> n, exp |-> now + FLOW_TTL, key |-> key(r)]]
          /\ state' = [state EXCEPT ![t] = n] /\ at' = [at EXCEPT ![t] = "provider"]
          /\ begun' = [begun EXCEPT ![n] = [by |-> BrowserOf(t), when |-> now]]
          /\ excused' = excused \cup BegunIn(BrowserOf(t))
          /\ UNCHANGED <<now, shared, gen, session, via, code, claims, minted>>
    BY <1>1, LoginDoes DEF IInv
  <2>2. CASE m # n
    BY <2>1, <2>2
  <2>3. CASE m = n
    <3>1. now < now + FLOW_TTL
      OBVIOUS
    <3>2. [csrf |-> n, exp |-> now + FLOW_TTL, key |-> key(r)] # None
      <4> HIDE DEF FlowState
      <4> QED BY CookieType
    <3>3. /\ begun[n]'.by = BrowserOf(t) /\ begun[n]'.when = now
          /\ flow'[BrowserOf(t)] = [csrf |-> n, exp |-> now + FLOW_TTL, key |-> key(r)]
      BY <2>1
    <3> QED BY <2>1, <2>3, <3>1, <3>2, <3>3
  <2> QED BY <2>2, <2>3
<1>2. ASSUME NEW t \in Tab, NEW r \in Replica, callback(t, r) PROVE StillGood(m)'
  BY <1>2 DEF callback, Goto, Refuse, Answered, cookies, provider
<1>3. ASSUME NEW t \in Tab, Provider(t) PROVE StillGood(m)'
  BY <1>3 DEF Provider, Goto, cookies
<1>4. ASSUME NEW t \in Tab, FinishLogin(t) PROVE StillGood(m)'
  BY <1>4 DEF FinishLogin, Refuse, Answered, Goto, FlowCleared, cookies
<1>5. ASSUME NEW t \in Tab, ExchangeFails(t) PROVE StillGood(m)'
  BY <1>5 DEF ExchangeFails, Refuse, Answered, Goto, cookies
<1>6. ASSUME NEW t \in Tab, NEW n \in Flow, OpenAgain(t, n) PROVE StillGood(m)'
  BY <1>6 DEF OpenAgain, Goto, cookies, provider, history
<1>7. ASSUME NEW b \in Browser, logout(b) PROVE StillGood(m)'
  BY <1>7 DEF logout, FlowCleared, tabs, provider
<1>8. ASSUME NEW r \in Replica, Restart(r) PROVE StillGood(m)'
  BY <1>8 DEF Restart, cookies, provider
<1>9. CASE Tick
  BY <1>9 DEF Tick, cookies, tabs, provider
<1>10. CASE UNCHANGED vars
  BY <1>10 DEF vars, cookies, tabs, provider, history
<1> QED BY <1>1, <1>2, <1>3, <1>4, <1>5, <1>6, <1>7, <1>8, <1>9, <1>10 DEF Next

(* A session is made by clearing the cookie its flow came with. *)
LEMMA FlowStep == IInv /\ [Next]_vars => (\A c \in Browser : FlowCookie(c))'
<1> SUFFICES ASSUME IInv, [Next]_vars, NEW c \in Browser PROVE FlowCookie(c)'
  OBVIOUS
<1> USE LoginAssumption, KeyType DEF IInv, TypeOK, FlowCookie, TabOnItsWay, ProviderSaid,
           BegunIn, FlowState, Begun
<1>1. ASSUME NEW t \in Tab, NEW r \in Replica, login(t, r) PROVE FlowCookie(c)'
  <2>1. PICK n \in Flow :
          /\ at[t] = "idle" /\ begun[n] = None
          /\ flow' = [flow EXCEPT ![BrowserOf(t)] =
                        [csrf |-> n, exp |-> now + FLOW_TTL, key |-> key(r)]]
          /\ state' = [state EXCEPT ![t] = n] /\ at' = [at EXCEPT ![t] = "provider"]
          /\ begun' = [begun EXCEPT ![n] = [by |-> BrowserOf(t), when |-> now]]
          /\ excused' = excused \cup BegunIn(BrowserOf(t))
          /\ UNCHANGED <<now, shared, gen, session, via, code, claims, minted>>
    BY <1>1, LoginDoes DEF IInv
  <2> QED BY <2>1, CookieType, KeyType
<1>2. ASSUME NEW t \in Tab, NEW r \in Replica, callback(t, r) PROVE FlowCookie(c)'
  BY <1>2 DEF callback, Goto, Refuse, Answered, cookies, provider
<1>3. ASSUME NEW t \in Tab, Provider(t) PROVE FlowCookie(c)'
  BY <1>3 DEF Provider, Goto, cookies
<1>4. ASSUME NEW t \in Tab, FinishLogin(t) PROVE FlowCookie(c)'
  BY <1>4 DEF FinishLogin, Refuse, Answered, Goto, FlowCleared, cookies
<1>5. ASSUME NEW t \in Tab, ExchangeFails(t) PROVE FlowCookie(c)'
  BY <1>5 DEF ExchangeFails, Refuse, Answered, Goto, cookies
<1>6. ASSUME NEW t \in Tab, NEW n \in Flow, OpenAgain(t, n) PROVE FlowCookie(c)'
  BY <1>6 DEF OpenAgain, Goto, cookies, provider, history
<1>7. ASSUME NEW b \in Browser, logout(b) PROVE FlowCookie(c)'
  BY <1>7 DEF logout, FlowCleared, tabs, provider
<1>8. ASSUME NEW r \in Replica, Restart(r) PROVE FlowCookie(c)'
  BY <1>8 DEF Restart, cookies, provider
<1>9. CASE Tick
  BY <1>9 DEF Tick, cookies, tabs, provider
<1>10. CASE UNCHANGED vars
  BY <1>10 DEF vars, cookies, tabs, provider, history
<1> QED BY <1>1, <1>2, <1>3, <1>4, <1>5, <1>6, <1>7, <1>8, <1>9, <1>10 DEF Next

(* A callback sets the session of the browser it goes on in. *)
LEMMA SessionStep == IInv /\ [Next]_vars => (\A c \in Browser : SessionCookie(c))'
<1> SUFFICES ASSUME IInv, [Next]_vars, NEW c \in Browser PROVE SessionCookie(c)'
  OBVIOUS
<1> USE LoginAssumption DEF IInv, TypeOK, SessionCookie, TabOnItsWay, BegunIn, Session, Begun
<1>1. ASSUME NEW t \in Tab, NEW r \in Replica, login(t, r) PROVE SessionCookie(c)'
  <2>1. PICK n \in Flow :
          /\ at[t] = "idle" /\ begun[n] = None
          /\ flow' = [flow EXCEPT ![BrowserOf(t)] =
                        [csrf |-> n, exp |-> now + FLOW_TTL, key |-> key(r)]]
          /\ state' = [state EXCEPT ![t] = n] /\ at' = [at EXCEPT ![t] = "provider"]
          /\ begun' = [begun EXCEPT ![n] = [by |-> BrowserOf(t), when |-> now]]
          /\ excused' = excused \cup BegunIn(BrowserOf(t))
          /\ UNCHANGED <<now, shared, gen, session, via, code, claims, minted>>
    BY <1>1, LoginDoes DEF IInv
  <2> QED BY <2>1
<1>2. ASSUME NEW t \in Tab, NEW r \in Replica, callback(t, r) PROVE SessionCookie(c)'
  BY <1>2 DEF callback, Goto, Refuse, Answered, cookies, provider
<1>3. ASSUME NEW t \in Tab, Provider(t) PROVE SessionCookie(c)'
  BY <1>3 DEF Provider, Goto, cookies
<1>4. ASSUME NEW t \in Tab, FinishLogin(t) PROVE SessionCookie(c)'
  BY <1>4 DEF FinishLogin, Refuse, Answered, Goto, FlowCleared, cookies
<1>5. ASSUME NEW t \in Tab, ExchangeFails(t) PROVE SessionCookie(c)'
  BY <1>5 DEF ExchangeFails, Refuse, Answered, Goto, cookies
<1>6. ASSUME NEW t \in Tab, NEW n \in Flow, OpenAgain(t, n) PROVE SessionCookie(c)'
  BY <1>6 DEF OpenAgain, Goto, cookies, provider, history
<1>7. ASSUME NEW b \in Browser, logout(b) PROVE SessionCookie(c)'
  BY <1>7 DEF logout, FlowCleared, tabs, provider
<1>8. ASSUME NEW r \in Replica, Restart(r) PROVE SessionCookie(c)'
  BY <1>8 DEF Restart, cookies, provider
<1>9. CASE Tick
  BY <1>9 DEF Tick, cookies, tabs, provider
<1>10. CASE UNCHANGED vars
  BY <1>10 DEF vars, cookies, tabs, provider, history
<1> QED BY <1>1, <1>2, <1>3, <1>4, <1>5, <1>6, <1>7, <1>8, <1>9, <1>10 DEF Next

-----------------------------------------------------------------------------
(* The invariant, and the theorems. *)

LEMMA Inductive == IInv /\ [Next]_vars => IInv'
  BY TypeStep, TabStep, FirstStep, ProviderStep, GoodStep, FlowStep, SessionStep DEF IInv

(***************************************************************************)
(* In every state the cookies of a browser are of flows it began itself,   *)
(* each flow has one place in which it can go on, and a flow without a     *)
(* cause to fail is the fresh one in the cookie of its browser.            *)
(***************************************************************************)
THEOREM InductiveInvariant == Spec => []IInv
  BY Initially, Inductive, PTL DEF Spec

(* Types hold: every cookie a replica reads is one it knows how to read. *)
THEOREM TypeCorrect == Spec => []TypeOK
<1>1. IInv => TypeOK
  BY DEF IInv
<1> QED BY InductiveInvariant, <1>1, PTL

(***************************************************************************)
(* A browser holds a session only out of a login begun in it (callback     *)
(* compares the state with the cookie of the same browser).                *)
(***************************************************************************)
THEOREM SessionAlwaysItsOwn == Spec => []SessionIsItsOwn
<1>1. IInv => SessionIsItsOwn
  BY DEF IInv, SessionIsItsOwn, SessionCookie
<1> QED BY InductiveInvariant, <1>1, PTL

(***************************************************************************)
(* Who an enforced route lets in logged in less than session_ttl ago and,  *)
(* without a shared secret, at this replica since its last restart.        *)
(***************************************************************************)
THEOREM AdmittedAlwaysInTime == Spec => []AdmittedInTime
<1>1. IInv => AdmittedInTime
  <2> SUFFICES ASSUME IInv, NEW b \in Browser, NEW r \in Replica,
                      NEW needed_at \in {"upload", "all"}, enforced(needed_at),
                      require(b, r, needed_at) = "admitted"
               PROVE  /\ session[b] # None /\ now - session[b].born < session_ttl
                      /\ shared \/ session[b].key = <<r, gen[r]>>
    BY DEF AdmittedInTime
  <2>1. session[b] # None /\ session[b].key = key(r) /\ session[b].exp > now
    BY DEF require, current_session, verify
  <2>2. now \in Nat /\ session[b].born \in Nat /\ session[b].exp = session[b].born + session_ttl
    BY <2>1 DEF IInv, TypeOK, Session, SessionCookie
  <2>3. now - session[b].born < session_ttl
    BY <2>1, <2>2, LoginAssumption
  <2> QED BY <2>1, <2>3 DEF key
<1> QED BY InductiveInvariant, <1>1, PTL

(***************************************************************************)
(* No flow that led to a session is taken to the provider again: the       *)
(* cookie it needs was cleared with the session, and no later cookie is    *)
(* of that flow.                                                           *)
(***************************************************************************)
THEOREM FinishedOnlyOnce == Spec => FinishedOnce
<1>1. IInv /\ [Next]_vars =>
        [\A t \in Tab : at[t] = "returning" /\ at'[t] = "exchange" => state[t] \notin minted]_vars
  <2> SUFFICES ASSUME IInv, Next, NEW u \in Tab, at[u] = "returning", at'[u] = "exchange"
               PROVE  state[u] \notin minted
    OBVIOUS
  <2> USE DEF IInv, TypeOK
  <2>1. ASSUME NEW t \in Tab, NEW r \in Replica, callback(t, r) PROVE state[u] \notin minted
    <3>1. u = t /\ FlowFits(t, r)
      BY <2>1 DEF callback, Goto, Refuse, Answered
    <3> QED BY <3>1, LoginAssumption DEF FlowFits, verify, FlowCookie
  <2>2. ASSUME NEW t \in Tab, NEW r \in Replica, login(t, r) PROVE FALSE
    BY <2>2 DEF login, Goto
  <2>3. ASSUME NEW t \in Tab, Provider(t) PROVE FALSE
    BY <2>3 DEF Provider, Goto
  <2>4. ASSUME NEW t \in Tab, FinishLogin(t) PROVE FALSE
    BY <2>4 DEF FinishLogin, Refuse, Answered, Goto
  <2>5. ASSUME NEW t \in Tab, ExchangeFails(t) PROVE FALSE
    BY <2>5 DEF ExchangeFails, Refuse, Answered, Goto
  <2>6. ASSUME NEW t \in Tab, NEW n \in Flow, OpenAgain(t, n) PROVE FALSE
    BY <2>6 DEF OpenAgain, Goto
  <2>7. ASSUME NEW b \in Browser, logout(b) PROVE FALSE
    BY <2>7 DEF logout, tabs
  <2>8. ASSUME NEW r \in Replica, Restart(r) PROVE FALSE
    BY <2>8 DEF Restart
  <2>9. CASE Tick
    BY <2>9 DEF Tick, tabs
  <2> QED BY <2>1, <2>2, <2>3, <2>4, <2>5, <2>6, <2>7, <2>8, <2>9 DEF Next
<1> QED BY InductiveInvariant, <1>1, PTL DEF Spec, FinishedOnce

(***************************************************************************)
(* With a shared secret a login is refused for a cause only: no restart,   *)
(* no change of replica and no earlier refusal is one (oidc.rs:6-8).       *)
(***************************************************************************)
THEOREM RefusedOnlyForCause == Spec => RefusedForCause
<1> DEFINE Cause(t) == LET n == state[t] IN
                       \/ ~shared \/ n \in excused' \/ BrowserOf(t) # begun[n].by
                       \/ claims[n] # None /\ NotOnList(claims[n])
<1>1. IInv /\ [Next]_vars =>
        [\A t \in Tab :
           at[t] \in {"returning", "exchange"} /\ at'[t] = "idle" /\ minted' = minted =>
             Cause(t)]_vars
  <2> SUFFICES ASSUME IInv, Next, NEW u \in Tab, at[u] \in {"returning", "exchange"},
                      at'[u] = "idle", minted' = minted
               PROVE  Cause(u)
    OBVIOUS
  <2> USE DEF IInv, TypeOK
  <2>0. state[u] \in Flow /\ begun[state[u]] # None /\ code[state[u]] # "none"
    BY DEF TabOnItsWay
  <2>1. ASSUME NEW t \in Tab, NEW r \in Replica, callback(t, r) PROVE Cause(u)
    <3>1. u = t /\ excused' = excused
      BY <2>1 DEF callback, Goto, Refuse, Answered
    <3>2. code[state[t]] = "error" \/ ~FlowFits(t, r)
      BY <2>1, <3>1 DEF callback, Goto
    <3>3. CASE code[state[t]] = "error"
      BY <2>0, <3>1, <3>3 DEF ProviderSaid
    <3>4. ASSUME shared, state[u] \notin excused, BrowserOf(u) = begun[state[u]].by
          PROVE  FlowFits(u, r)
      <4>1. /\ flow[BrowserOf(u)] # None /\ flow[BrowserOf(u)].csrf = state[u]
            /\ now < begun[state[u]].when + FLOW_TTL
        BY <2>0, <3>4 DEF StillGood
      <4>2. /\ flow[BrowserOf(u)].exp = begun[state[u]].when + FLOW_TTL
            /\ flow[BrowserOf(u)].key = None
        BY <3>4, <4>1, LoginAssumption DEF FlowCookie
      <4>3. flow[BrowserOf(u)].exp > now
        BY <2>0, <4>1, <4>2, LoginAssumption, BegunType
      <4> QED BY <3>4, <4>1, <4>2, <4>3 DEF FlowFits, verify, key
    <3> QED BY <3>1, <3>2, <3>3, <3>4
  <2>2. ASSUME NEW t \in Tab, NEW r \in Replica, login(t, r) PROVE FALSE
    BY <2>2 DEF login, Goto
  <2>3. ASSUME NEW t \in Tab, Provider(t) PROVE FALSE
    BY <2>3 DEF Provider, Goto
  <2>4. ASSUME NEW t \in Tab, FinishLogin(t) PROVE Cause(u)
    <3>1. u = t
      BY <2>4, FinishDoes
    <3>2. CASE minted' = minted \cup {state[t]} /\ excused' = excused \cup BegunIn(BrowserOf(t))
      <4>1. state[t] \in BegunIn(BrowserOf(t))
        BY <2>4, FinishDoes DEF BegunIn
      <4> QED BY <3>1, <3>2, <4>1
    <3>3. CASE excused' = excused /\ (code[state[t]] = "used" \/ NotOnList(claims[state[t]]))
      <4>1. state[t] \in excused \/ NotOnList(claims[state[t]])
        BY <2>0, <3>1, <3>3 DEF ProviderSaid
      <4>2. claims[state[t]] # None
        BY <2>0, <2>4, <3>1 DEF ProviderSaid, TabOnItsWay, FinishLogin
      <4> QED BY <3>1, <3>3, <4>1, <4>2
    <3> QED BY <2>4, <3>2, <3>3, FinishDoes
  <2>5. ASSUME NEW t \in Tab, ExchangeFails(t) PROVE Cause(u)
    BY <2>5 DEF ExchangeFails, Refuse, Answered, Goto
  <2>6. ASSUME NEW t \in Tab, NEW n \in Flow, OpenAgain(t, n) PROVE FALSE
    BY <2>6 DEF OpenAgain, Goto
  <2>7. ASSUME NEW b \in Browser, logout(b) PROVE FALSE
    BY <2>7 DEF logout, tabs
  <2>8. ASSUME NEW r \in Replica, Restart(r) PROVE Cause(u)
    <3>1. via[u] = r
      BY <2>8 DEF Restart
    <3> QED BY <2>8, <3>1 DEF Restart
  <2>9. CASE Tick
    BY <2>9 DEF Tick, tabs
  <2> QED BY <2>1, <2>2, <2>3, <2>4, <2>5, <2>6, <2>7, <2>8, <2>9 DEF Next
<1> QED BY InductiveInvariant, <1>1, PTL DEF Spec, RefusedForCause

(***************************************************************************)
(* With a shared secret, who is let in at one replica is let in at every   *)
(* replica until the session is over or its browser logs out: all replicas *)
(* check with one key, which no restart changes, and of all that happens   *)
(* to a login only its success touches the session cookie (auth.rs:77-89). *)
(***************************************************************************)
THEOREM SignedInAlwaysStays == Spec => SignedInStays
<1> DEFINE Stays(b, r, s, needed_at) ==
      /\ shared /\ enforced(needed_at)
      /\ require(b, r, needed_at) = "admitted"
      /\ require(b, s, needed_at)' # "admitted"
      => logout(b) \/ (session'[b] # None /\ session'[b].exp <= now')
<1>1. IInv /\ [Next]_vars =>
        [\A b \in Browser, r, s \in Replica, needed_at \in {"upload", "all"} :
           Stays(b, r, s, needed_at)]_vars
  <2> SUFFICES ASSUME IInv, Next, NEW c \in Browser, NEW p \in Replica, NEW s \in Replica,
                      NEW needed_at \in {"upload", "all"}, shared, enforced(needed_at),
                      require(c, p, needed_at) = "admitted",
                      require(c, s, needed_at)' # "admitted", ~logout(c)
               PROVE  session'[c] # None /\ session'[c].exp <= now'
    OBVIOUS
  <2>1. session[c] # None /\ session[c].key = None
    BY DEF require, current_session, verify, key
  <2>2. ~(/\ session'[c] # None /\ session'[c].key = key(s)'
          /\ session'[c].exp > now' /\ session'[c] # None)
    BY DEF require, current_session, verify
  <2>3. shared' = shared
    BY DEF Next, login, callback, Provider, FinishLogin, ExchangeFails, OpenAgain, logout,
           Restart, Tick
  <2>4. key(s)' = None
    BY <2>3 DEF key
  <2>5. session'[c] # None /\ session'[c].key = None
    <3>1. CASE session' = session
      BY <2>1, <3>1
    <3>2. ASSUME NEW t \in Tab, FinishLogin(t), session' # session
          PROVE  session'[c] # None /\ session'[c].key = None
      <4> DEFINE new == [sub |-> claims[state[t]].sub, exp |-> now + session_ttl,
                         key |-> key(via[t]), of |-> state[t], born |-> now]
      <4>1. session' = [session EXCEPT ![BrowserOf(t)] = new]
        BY <3>2 DEF FinishLogin, Refuse, cookies
      <4>2. new # None /\ new.key = None
        <5>1. at[t] = "exchange" /\ code[state[t]] = "issued" /\ state[t] \in Flow
          BY <3>2 DEF FinishLogin, Refuse, cookies, IInv, TypeOK, TabOnItsWay
        <5>2. via[t] \in Replica /\ claims[state[t]] \in ClaimSet
          BY <5>1 DEF IInv, TypeOK, TabOnItsWay, ProviderSaid
        <5>3. claims[state[t]].sub \in {"u", "v"}
          BY <5>2 DEF ClaimSet
        <5>4. new \in Session
          BY <5>1, <5>2, <5>3, CookieType DEF IInv
        <5> QED BY <5>4, LoginAssumption DEF key
      <4>3. CASE BrowserOf(t) = c
        BY <4>1, <4>2, <4>3 DEF IInv, TypeOK
      <4>4. CASE BrowserOf(t) # c
        BY <2>1, <4>1, <4>4 DEF IInv, TypeOK
      <4> QED BY <4>3, <4>4
    <3>3. ASSUME NEW b \in Browser, logout(b) PROVE session'[c] = session[c]
      <4>1. b # c
        BY <3>3
      <4> QED BY <3>3, <4>1 DEF logout, IInv, TypeOK
    <3>4. \/ session' = session \/ \E t \in Tab : FinishLogin(t)
          \/ \E b \in Browser : logout(b)
      BY DEF Next, login, callback, Provider, ExchangeFails, OpenAgain, Restart, Tick,
             Refuse, cookies, history
    <3> QED BY <2>1, <3>1, <3>2, <3>3, <3>4
  <2>6. ~(session'[c].exp > now')
    BY <2>2, <2>4, <2>5
  <2>7. session'[c].exp \in Nat /\ now' \in Nat
    BY <2>5, TypeStep DEF TypeOK, Session
  <2> QED BY <2>5, <2>6, <2>7
<1> QED BY InductiveInvariant, <1>1, PTL DEF Spec, SignedInStays

=============================================================================
