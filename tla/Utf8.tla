-------------------------------- MODULE Utf8 --------------------------------
(***************************************************************************)
(* String::from_utf8_lossy of Rust's standard library, as the text fields  *)
(* of both codecs use it.  Bytes are numbers; the byte 255 stands for what *)
(* is not UTF-8 (it occurs in no UTF-8 text) and becomes the replacement   *)
(* character, which is three bytes long.                                   *)
(***************************************************************************)
EXTENDS Sequences, SequencesExt

NotUtf8 == 255

IsUtf8(bytes) == \A i \in DOMAIN bytes : bytes[i] # NotUtf8

Lossy(bytes) ==
  IF IsUtf8(bytes) THEN bytes
  ELSE FlattenSeq([i \in DOMAIN bytes |->
                IF bytes[i] = NotUtf8 THEN <<239, 191, 189>> ELSE <<bytes[i]>>])
=============================================================================
