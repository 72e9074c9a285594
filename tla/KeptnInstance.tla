---------------------------- MODULE KeptnInstance ----------------------------
(***************************************************************************)
(* The KeptnInstance controller of keptn-operator: it copies the API token *)
(* from a secret (or from its spec, where it is never missing) into the    *)
(* status of the KeptnInstance, encrypted, from where all other            *)
(* controllers take it.  The controller compares the token with a status   *)
(* it has already overwritten, so that only the age of the last update     *)
(* ever makes it write.                                                    *)
(***************************************************************************)
EXTENDS Integers

CONSTANTS
  MaxToken,    \* bound on the tokens Keptn issues
  Unreadable,  \* the secret is missing
  Empty,       \* the empty string
  Unset        \* a status nobody has written yet

Tokens == 1..MaxToken

VARIABLES
  accepted,  \* the token the Keptn API accepts
  secret,    \* the token in the secret, as the cache shows it
  token,     \* the token in the status of the KeptnInstance, decrypted
  due        \* the last update is more than 120 s ago

vars == <<accepted, secret, token, due>>

Init ==
  /\ accepted = 1
  /\ secret \in {1, Unreadable}
  /\ token = Unset
  /\ due = TRUE

-----------------------------------------------------------------------------
\* Mutant: the error of a missing secret reaches the status.
GetKeptnCPToken_Missing == secret

\* An error is only logged, and leaves the empty string.
GetKeptnCPToken == IF secret = Unreadable THEN Empty ELSE secret

\* Mutant: the comparison, which never finds a difference, guards the write.
Refresh_Compared ==
  /\ due
  /\ token = Unset
  /\ token' = GetKeptnCPToken
  /\ due' = FALSE
  /\ UNCHANGED <<accepted, secret>>

\* Nobody else writes the status, so that reading the secret and writing it is
\* one step; a write that fails leaves it due.
Refresh ==
  /\ due
  /\ token' = GetKeptnCPToken
  /\ due' = FALSE
  /\ UNCHANGED <<accepted, secret>>

\* 120 s pass.
Age ==
  /\ ~due
  /\ due' = TRUE
  /\ UNCHANGED <<accepted, secret, token>>

-----------------------------------------------------------------------------
(* The environment. *)

\* Keptn issues a new token; the secret has it a moment later.
Rotate ==
  /\ accepted < MaxToken
  /\ accepted' = accepted + 1
  /\ UNCHANGED <<secret, token, due>>

LoseSecret ==
  /\ secret # Unreadable
  /\ secret' = Unreadable
  /\ UNCHANGED <<accepted, token, due>>

DeliverSecret ==
  /\ secret # accepted
  /\ secret' = accepted
  /\ UNCHANGED <<accepted, token, due>>

-----------------------------------------------------------------------------
Controller == Refresh \/ Age

\* The API answers requests that carry a token header, and serves those with
\* the token it accepts.
Answers == token # Unset
Serves  == token = accepted

TypeOK ==
  /\ accepted \in Tokens
  /\ secret \in Tokens \cup {Unreadable}
  /\ token \in Tokens \cup {Empty, Unset}
  /\ due \in BOOLEAN
=============================================================================
