---------------------------- MODULE MessageCodec ----------------------------
(***************************************************************************)
(* What a producer writes into a send request, and what a consumer makes   *)
(* of the message that a broker returns: validation, compression and the   *)
(* check of the digest.  Text is abstracted: a body is a payload in a      *)
(* form, and a digest tells a body from every other one.                   *)
(***************************************************************************)
EXTENDS Integers

CONSTANTS
  CompressBodyThreshold,  \* length from which a producer compresses a body
  MaxMessageBodySize

ASSUME CodecAssumption == CompressBodyThreshold \in Nat /\ MaxMessageBodySize \in Nat

MessageType == {"NORMAL", "FIFO", "DELAY", "TRANSACTION"}

\* A body on the wire: the payload, its form and what happened to it since.
Body(payload, form) == [payload |-> payload, form |-> form, state |-> "intact"]

\* What a consumer makes of a body that is not the one a producer wrote.
NoPayload == "no payload"
Garbage == "garbage"

-----------------------------------------------------------------------------
(* The producer *)

validate(message) == message.length > 0 /\ message.length <= MaxMessageBodySize

compress(payload) == Body(payload, "deflated")

wrapSendMessageRequest(message) ==
  IF message.length >= CompressBodyThreshold
    THEN [type |-> message.type, encoding |-> "GZIP", body |-> compress(message.payload)]
    ELSE [type |-> message.type, encoding |-> "IDENTITY", body |-> Body(message.payload, "plain")]

-----------------------------------------------------------------------------
(* The consumer *)

\* Inflation of a damaged body ends with an error that the caller ignores: what
\* was inflated so far is used.
uncompress(body) ==
  CASE body.state = "empty" -> NoPayload
    [] body.state = "altered" -> Garbage
    [] OTHER -> IF body.form = "deflated" THEN body.payload ELSE Garbage

\* Mutant: without a result to compare with, every check is passed over.
DigestMatches_Skips(item, md5Works) ==
  item.body.state = "empty" \/ item.digest.type # "CRC32" \/ item.digest.of = item.body

\* What MixAll::crc32, md5 and sha1 return: only the computation of MD5 can fail.
Computed(type, md5Works) == type = "MD5" => md5Works

\* The check is passed over if the digest cannot be computed, for an empty body
\* and for a digest of an unknown type.
DigestMatches(item, md5Works) ==
  \/ item.body.state = "empty"
  \/ item.digest.type \notin {"CRC32", "MD5", "SHA1"}
  \/ ~Computed(item.digest.type, md5Works)
  \/ item.digest.of = item.body

\* A body that was not compressed.
identity(body) ==
  CASE body.state = "empty" -> NoPayload
    [] body.state = "altered" -> Garbage
    [] OTHER -> body.payload

\* The body and type of an accepted message.  An unknown encoding leaves the
\* body empty, an unknown type counts as NORMAL.
wrapMessage(item) ==
  [ body |-> CASE item.encoding = "GZIP" -> uncompress(item.body)
               [] item.encoding = "IDENTITY" -> identity(item.body)
               [] OTHER -> NoPayload,
    type |-> IF item.type \in MessageType THEN item.type ELSE "NORMAL" ]

=============================================================================
