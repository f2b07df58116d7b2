---------------------------- MODULE AccessDecisions ----------------------------
(***************************************************************************)
(* The documents of crates/oc-protocol/src/access.rs: a device asks, the   *)
(* request waits in the server's queue, the author decides.  The decision  *)
(* carries share B, sealed to the device it names.                         *)
(***************************************************************************)
EXTENDS Integers, Sequences, Documents

CONSTANTS
  HEIR_SEQ,              \* the number of a decision made for an heir
  MAX_PENDING_PER_FILE,  \* the window of the queue that is shown
  NoShare                \* a decision without the share

\* Notes: too long, or with a character that must not be shown, are refused.
check_note(note) == note \notin {"long", "unsafe"}

\* A key names its device: the fingerprint is a digest of mechanism and key.
device_fpr(kem, public) == <<kem, public>>

AskAccess(file, fpr, kem, public, note) ==
  [file_id |-> file, device_fpr |-> fpr, device_kem |-> kem, device_public |-> public,
   note |-> note]

\* encode_ask and decode_ask accept the same requests.
encode_ask(ask) == check_note(ask.note)
decode_ask(ask, more) == check_note(ask.note) /\ refuse_if_critical(more)

\* The server's entry for a request, as the author reads it.
Pending(seq, ask, at) ==
  [seq |-> seq, file_id |-> ask.file_id, device_fpr |-> ask.device_fpr,
   device_kem |-> ask.device_kem, device_public |-> ask.device_public, note |-> ask.note,
   at |-> at]

decode_pending(p, more) == check_note(p.note) /\ refuse_if_critical(more)

\* Every entry must parse, and there are no more than the window holds.
split_queue(records) ==
  /\ \A i \in DOMAIN records : decode_pending(records[i], "none")
  /\ Len(records) <= MAX_PENDING_PER_FILE

-------------------------------------------------------------------------------
(* Decisions. *)

Share(kem, public) == [sealed_to |-> <<kem, public>>]

\* The signed body; the signature is a field of its own, the last one.
Decision(seq, file, fpr, approve, share, key) ==
  [seq |-> seq, file_id |-> file, device_fpr |-> fpr, approve |-> approve,
   share_b |-> share, author_key |-> key]

\* The share goes with an approval and with nothing else.  No unknown field is
\* skipped: the signature is verified over the body encoded anew.
decode_decision(d) ==
  /\ d.more = "none"
  /\ d.text.approve <=> d.text.share_b # NoShare

================================================================================
