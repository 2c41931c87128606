--------------------------- MODULE SignedDocument ---------------------------
(***************************************************************************)
(* What the completion engine promises about the signed PDF of one         *)
(* envelope, whatever produces the bytes: the row names a document only    *)
(* after its bytes are in the file storage, and it names it for ever.      *)
(* FinalDocument (the in-house renderer) and ProviderConverge (a provider  *)
(* that supplies the PDF) implement this specification.                    *)
(***************************************************************************)
CONSTANTS Bytes,   \* the documents that can be produced
          NoBytes  \* no document yet: signedPdfKey IS NULL

VARIABLES key,     \* signedPdfKey; the key is the hash of the bytes
          stored   \* the objects in the file storage

Init == key = NoBytes /\ stored = {}

Store(b) == stored' = stored \cup {b} /\ UNCHANGED key

Publish(b) ==
  /\ key = NoBytes
  /\ b \in stored
  /\ key' = b
  /\ UNCHANGED stored

Next == \E b \in Bytes : Store(b) \/ Publish(b)

Spec == Init /\ [][Next]_<<key, stored>>
=============================================================================
