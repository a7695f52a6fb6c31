------------------------------- MODULE Limits -------------------------------
(***************************************************************************)
(* What a share may ask for.  An upload names a lifetime and a download    *)
(* budget, or leaves either out; the server never refuses a number, it     *)
(* clamps it into its own window, and that window into the protocol's.     *)
(* Models config.rs (clamp_expiry, clamp_downloads, effective_*, validate).*)
(***************************************************************************)
EXTENDS Integers

CONSTANTS
  None,                   \* a header that was not sent; no value at all
  MIN_EXPIRY_SECS,        \* protocol limits (crates/proto/src/lib.rs)
  MAX_EXPIRY_SECS,
  MAX_DOWNLOADS,
  DEFAULT_MAX_DOWNLOADS,
  max_expiry,             \* the operator's --max-expiry, taken as given
  max_downloads,          \* the operator's --max-downloads, taken as given
  default_expiry          \* the operator's --default-expiry

clamp(x, lo, hi) == IF x < lo THEN lo ELSE IF x > hi THEN hi ELSE x

unwrap_or(asked, default) == IF asked = None THEN default ELSE asked

effective_max_expiry == clamp(max_expiry, MIN_EXPIRY_SECS, MAX_EXPIRY_SECS)

effective_max_downloads == clamp(max_downloads, 1, MAX_DOWNLOADS)

clamp_expiry(asked) ==
  clamp(unwrap_or(asked, default_expiry), MIN_EXPIRY_SECS, effective_max_expiry)

clamp_downloads(asked) ==
  clamp(unwrap_or(asked, DEFAULT_MAX_DOWNLOADS), 1, effective_max_downloads)

(* The part of Config::validate that concerns the limits. *)
validate == default_expiry \in MIN_EXPIRY_SECS .. effective_max_expiry

ASSUME LimitsAssumption ==
  /\ MIN_EXPIRY_SECS \in Nat \ {0} /\ MAX_EXPIRY_SECS \in Nat /\ MAX_DOWNLOADS \in Nat \ {0}
  /\ MIN_EXPIRY_SECS <= MAX_EXPIRY_SECS
  /\ DEFAULT_MAX_DOWNLOADS \in Nat
  /\ max_expiry \in Nat /\ max_downloads \in Nat /\ default_expiry \in Nat
  /\ validate
=============================================================================
