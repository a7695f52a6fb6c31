---------------------------- MODULE LimitsProofs ----------------------------
(* Whatever is asked for, what is granted lies in the protocol's window.   *)
EXTENDS Limits, TLAPS

(* A clamped number lies between the bounds. *)
LEMMA ClampInWindow ==
  ASSUME NEW x \in Nat, NEW lo \in Nat, NEW hi \in Nat, lo <= hi
  PROVE  clamp(x, lo, hi) \in lo .. hi
  BY DEF clamp

(* The operator's limits are clamped into the protocol's. *)
LEMMA WindowsNotEmpty ==
  /\ effective_max_expiry \in MIN_EXPIRY_SECS .. MAX_EXPIRY_SECS
  /\ effective_max_downloads \in 1 .. MAX_DOWNLOADS
  <1> USE LimitsAssumption
  <1>1. effective_max_expiry \in MIN_EXPIRY_SECS .. MAX_EXPIRY_SECS
    BY ClampInWindow DEF effective_max_expiry
  <1>2. effective_max_downloads \in 1 .. MAX_DOWNLOADS
    BY ClampInWindow DEF effective_max_downloads
  <1> QED BY <1>1, <1>2

(* A lifetime, asked for or left out, is clamped into the server's window, *)
(* and that window lies in the protocol's (config.rs clamp_expiry).        *)
THEOREM ExpiryInWindow ==
  ASSUME NEW asked \in Nat \cup {None}
  PROVE  /\ clamp_expiry(asked) \in MIN_EXPIRY_SECS .. effective_max_expiry
         /\ clamp_expiry(asked) \in Nat \ {0}
         /\ clamp_expiry(asked) <= MAX_EXPIRY_SECS
  <1>1. unwrap_or(asked, default_expiry) \in Nat
    BY LimitsAssumption DEF unwrap_or
  <1>2. /\ effective_max_expiry \in Nat
        /\ MIN_EXPIRY_SECS <= effective_max_expiry
        /\ effective_max_expiry <= MAX_EXPIRY_SECS
    BY WindowsNotEmpty, LimitsAssumption
  <1>3. clamp_expiry(asked) \in MIN_EXPIRY_SECS .. effective_max_expiry
    BY <1>1, <1>2, LimitsAssumption DEF clamp, clamp_expiry
  <1> QED BY <1>2, <1>3, LimitsAssumption

(* A budget, asked for or left out, comes out as at least one download and *)
(* at most what the server and the protocol allow (config.rs               *)
(* clamp_downloads): no share is published with nothing to give.           *)
THEOREM BudgetInWindow ==
  ASSUME NEW asked \in Nat \cup {None}
  PROVE  /\ clamp_downloads(asked) \in 1 .. effective_max_downloads
         /\ clamp_downloads(asked) \in Nat \ {0}
         /\ clamp_downloads(asked) <= MAX_DOWNLOADS
  <1>1. unwrap_or(asked, DEFAULT_MAX_DOWNLOADS) \in Nat
    BY LimitsAssumption DEF unwrap_or
  <1>2. /\ effective_max_downloads \in Nat
        /\ 1 <= effective_max_downloads
        /\ effective_max_downloads <= MAX_DOWNLOADS
    BY WindowsNotEmpty, LimitsAssumption
  <1>3. clamp_downloads(asked) \in 1 .. effective_max_downloads
    BY <1>1, <1>2, LimitsAssumption DEF clamp, clamp_downloads
  <1> QED BY <1>2, <1>3, LimitsAssumption
=============================================================================
