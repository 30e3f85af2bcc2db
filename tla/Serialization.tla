--------------------------- MODULE Serialization ---------------------------
(***************************************************************************)
(* The values the bindings exchange with their callers are serializations: *)
(* sequences of the tags open, close, name and value.                      *)
(***************************************************************************)
EXTENDS Integers, Sequences, FiniteSets, TLC

CONSTANTS Numbers,  \* the texts the conversion to a number accepts
          Base64    \* the encoded texts, each with the blob it stands for

Token(tag, type, text, ser) == [tag |-> tag, type |-> type, text |-> text, ser |-> ser]
Open      == Token("open", "none", "", << >>)
Close     == Token("close", "none", "", << >>)
Name(t)   == Token("name", "atom", t, << >>)
Atom(t)   == Token("value", "atom", t, << >>)
Void      == Token("value", "void", "", << >>)
Packed(s) == Token("value", "serialization", "", s)

=============================================================================
