------------------------------- MODULE WireRelay -------------------------------
(***************************************************************************)
(* A message that programs hand on to each other in the binary format.     *)
(* Each has its own version of the message type, and decodes and encodes   *)
(* with the descriptor of that version.  The stream may end early.         *)
(***************************************************************************)
EXTENDS WireFormat

VARIABLES
  origin,     \* the message first written, in version First
  version,    \* version of the program that holds the message, or sent it
  message,    \* the message it holds
  sender,     \* version of the program that sent last
  wire,       \* the tokens it sent
  state,      \* "held", "sent", or "failed": the last program could not decode
  lost,       \* did a stream end early: "no", "now" the last one, "before"
  hops        \* number of times the message was sent

vars == <<origin, version, message, sender, wire, state, lost, hops>>

Init ==
  /\ origin \in Messages /\ message = origin
  /\ version = First /\ sender = First
  /\ wire = << >> /\ state = "held" /\ lost = "no" /\ hops = 0

\* Message::encode.
Send ==
  /\ state = "held" /\ hops < MaxHops
  /\ \E ascending \in BOOLEAN : wire' = EncodeRaw(Schema[version], "Message", message, ascending)
  /\ sender' = version /\ state' = "sent" /\ hops' = hops + 1
  /\ lost' = IF lost = "now" THEN "before" ELSE lost
  /\ UNCHANGED <<origin, version, message>>

\* The stream ends early.
Lose ==
  /\ state = "sent" /\ lost = "no"
  /\ \E k \in 0..(Len(wire) - 1) : wire' = SubSeq(wire, 1, k)
  /\ lost' = "now"
  /\ UNCHANGED <<origin, version, message, sender, state, hops>>

\* DynamicMessage::decode in a program with version v.
Receive(v) ==
  /\ state = "sent"
  /\ LET r == Decode(Schema[v], wire)
     IN IF r.ok THEN state' = "held" /\ message' = r.value
        ELSE state' = "failed" /\ message' = << >>
  /\ version' = v
  /\ UNCHANGED <<origin, sender, wire, lost, hops>>

\* Nothing is left to do.
Done == (state = "failed" \/ (state = "held" /\ hops = MaxHops)) /\ UNCHANGED vars

Next == Send \/ Lose \/ (\E v \in Versions : Receive(v)) \/ Done

Spec == Init /\ [][Next]_vars

-----------------------------------------------------------------------------
(* Properties.                                                             *)

\* Integers fit their kinds, whatever width the sender used; unknown fields are under
\* numbers the type does not have, and there is at least one where there is an entry.
FieldOK(n, x) ==
  LET fields == Schema[version]["Message"]
  IN IF n \notin DOMAIN fields THEN x # << >> /\ \A i \in DOMAIN x : x[i].number = n
     ELSE Packable(fields[n]) =>
       IF fields[n].card = "one" THEN x \in ValuesOf(fields[n].kind)
       ELSE \A i \in DOMAIN x : x[i] \in ValuesOf(fields[n].kind)

\* encoded_len is exactly the number of bytes that encode_raw writes, for known,
\* unknown, packed and nested fields.  Every length on the wire is computed by the
\* one before the bytes are written by the other, so a difference shifts all that
\* follows it.
LengthsExact ==
  state = "held" =>
    \A ascending \in BOOLEAN :
      Bytes(EncodeRaw(Schema[version], "Message", message, ascending))
        = EncodedLen(Schema[version], "Message", message)

\* What one program encodes every other program can decode, whichever fields its
\* version knows, packs, or reads with another width; and when the message comes
\* back to a program of the first version, it is the one that was written:
\* "Unknown fields are preserved when decoding and re-encoding a message".
\* In between, each version has what it reads in the width of its own kinds.
RelaysPreserve ==
  lost = "no" => /\ state # "failed" /\ \A n \in DOMAIN message : FieldOK(n, message[n])
                 /\ state = "held" /\ version = First => message = origin

\* A stream that ends early is refused, or ends between two fields: what decodes is
\* the message whose encoding the tokens are.  No length, group or entry is taken
\* for complete when it is not.
TruncationDetected ==
  state = "held" /\ lost = "now" /\ version = sender =>
    \E ascending \in BOOLEAN : wire = EncodeRaw(Schema[version], "Message", message, ascending)
=============================================================================
