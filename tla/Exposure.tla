------------------------------ MODULE Exposure ------------------------------
(***************************************************************************)
(* Deferred exposure (confidence-resolver/src/lib.rs): a resolve without   *)
(* apply answers with an encrypted token of its assignments; the client    *)
(* shows flags when it likes and reports them later, with times of its own *)
(* clock; apply_flags logs them with the server's.  Requests may be late,  *)
(* sent again and received in any order, and the worker that receives them *)
(* may have been redeployed with another key.                              *)
(***************************************************************************)
EXTENDS Integers, Sequences, FiniteSets

CONSTANTS
  Values,   \* the resolved values: a set of [flag, reason, variant, fell]
  Offsets,  \* the client's clock minus the server's
  Keys,     \* encryption keys, in the order they are deployed
  MaxTime,    \* bound: the server's clock
  MaxRequests \* bound: reports sent

ASSUME ExposureAssumption ==
  Offsets \subseteq Int /\ MaxTime \in Nat /\ MaxRequests \in Nat

VARIABLES
  now,      \* the server's clock
  offset,   \* the client's clock is now + offset
  key,      \* index of the key deployed
  token,    \* the token the client holds, << >> for none
  shown,    \* flag -> the client's time at which it was shown
  requests, \* ApplyFlagsRequests sent so far; they may be delivered repeatedly
  logged    \* flags logged: [flag, assignment, time], and of which request

exposureVars == <<now, offset, key, token, shown, requests, logged>>

should_apply(v) == v.reason = "Match" \/ v.fell

DefaultReasons == {"NoSegmentMatch", "NoTreatmentMatch", "FlagArchived"}

\* What is logged of a value: its variant, or the reason there is none.
Assignment(v) ==
  IF v.variant # "" THEN v.variant ELSE IF v.reason \in DefaultReasons THEN v.reason ELSE "Unspecified"

ToApply == {v \in Values : should_apply(v)}
Assigned == {v.flag : v \in ToApply}

encrypt_resolve_token(payload, k) == <<[payload |-> payload, key |-> k]>>

\* A token of another key does not decrypt.
decrypt_resolve_token(t, k) == IF t[1].key = k THEN <<t[1].payload>> ELSE << >>

ExposureInit ==
  /\ now = 0 /\ key = 1
  /\ offset \in Offsets
  /\ token = << >>
  /\ shown = [f \in {} |-> 0]
  /\ requests = {} /\ logged = {}

Tick ==
  /\ now < MaxTime
  /\ now' = now + 1
  /\ UNCHANGED <<offset, key, token, shown, requests, logged>>

Redeploy ==
  /\ key < Len(Keys)
  /\ key' = key + 1
  /\ UNCHANGED <<now, offset, token, shown, requests, logged>>

\* build_flag_assigned: an entry of FlagAssigned.
Entry(v, time, request) ==
  [flag |-> v.flag, assignment |-> Assignment(v), time |-> time, of |-> request]

\* A resolve with apply = true logs at once (with disableExposureCollection
\* the provider takes neither this step nor the next).
ResolveApply ==
  /\ logged' = logged \cup {Entry(v, now, << >>) : v \in ToApply}
  /\ UNCHANGED <<now, offset, key, token, shown, requests>>

\* One with apply = false answers with a token.
ResolveDeferred ==
  /\ token = << >>
  /\ token' = encrypt_resolve_token(ToApply, Keys[key])
  /\ UNCHANGED <<now, offset, key, shown, requests, logged>>

\* The client shows a flag, and reports what it has shown.
Show(f) ==
  /\ token # << >> /\ f \notin DOMAIN shown
  /\ shown' = [g \in DOMAIN shown \cup {f} |-> IF g = f THEN now + offset ELSE shown[g]]
  /\ UNCHANGED <<now, offset, key, token, requests, logged>>

Send ==
  /\ token # << >> /\ DOMAIN shown # {} /\ Cardinality(requests) < MaxRequests
  /\ requests' = requests \cup {[token |-> token, send_time |-> now + offset, flags |-> shown]}
  /\ UNCHANGED <<now, offset, key, token, shown, logged>>

\* Mutant: the time of the client's clock is logged.
Adjusted_Client(m, f) == m.flags[f]

\* The time a flag was shown, by the server's clock: as long before the
\* request was received as it was before it was sent.
Adjusted(m, f) == now - (m.send_time - m.flags[f])

\* Mutant: flags that are not in the token are left out.
apply_flags_Lenient(m) ==
  LET decrypted == decrypt_resolve_token(m.token, Keys[key])
  IN  /\ decrypted # << >>
      /\ logged' = logged \cup {Entry(v, Adjusted(m, v.flag), <<m>>) :
                                  v \in {v \in decrypted[1] : v.flag \in DOMAIN m.flags}}
      /\ UNCHANGED <<now, offset, key, token, shown, requests>>

\* A request is received: all its flags are in the token, or it is refused.
apply_flags(m) ==
  LET decrypted == decrypt_resolve_token(m.token, Keys[key])
  IN  /\ decrypted # << >>
      /\ \A f \in DOMAIN m.flags : \E v \in decrypted[1] : v.flag = f
      /\ logged' = logged \cup {Entry(v, Adjusted(m, v.flag), <<m>>) :
                                  v \in {v \in decrypted[1] : v.flag \in DOMAIN m.flags}}
      /\ UNCHANGED <<now, offset, key, token, shown, requests>>

ExposureNext ==
  \/ Tick \/ Redeploy \/ ResolveApply \/ ResolveDeferred \/ Send
  \/ \E f \in {v.flag : v \in Values} : Show(f)
  \/ \E m \in requests : apply_flags(m)

ExposureSpec == ExposureInit /\ [][ExposureNext]_exposureVars

-----------------------------------------------------------------------------
(* An exposure is dated between the moment the flag was shown and the one  *)
(* its report was received, by the server's clock, whatever the client's   *)
(* clock says and however late the report (apply_flags).                   *)
DatedRight ==
  \A e \in logged : e.of # << >> =>
    e.time \in e.of[1].flags[e.flag] - offset .. now

(* Only assignments of the resolve are logged, and a report is logged      *)
(* whole or not at all.                                                    *)
LoggedWhole ==
  \A e \in logged :
    /\ e.flag \in Assigned
    /\ e.of # << >> => \A f \in DOMAIN e.of[1].flags :
                         \E d \in logged : d.flag = f /\ d.of = e.of

(* Exposures are logged for what was assigned, whole and dated right,      *)
(* whatever the client's clock and the delay of its report.                *)
ExposureSound == DatedRight /\ LoggedWhole

=============================================================================
