---------------------------- MODULE MCFieldLexer ----------------------------
(* Every line of up to MaxLength characters. *)
EXTENDS FieldLexer

LOCAL INSTANCE SequencesExt

CONSTANT MaxLength

MCLines == BoundedSeq(Chars, MaxLength)
=============================================================================
