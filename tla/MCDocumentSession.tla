------------------------- MODULE MCDocumentSession -------------------------
EXTENDS DocumentSession

Message(i, l, s, n, a) == [id |-> i, locale |-> l, schema |-> s, reads |-> n, addressed |-> a]
Document(i, l, s) == [id |-> i, locale |-> l, strict |-> s]

(* Payload 3 messages for the document, for it in another locale and for
   another document; one of Payload 2 with two references, without a locale;
   one the merge finds no endpoint for. *)
AllMessages ==
  {Message("mine", "mine", FALSE, 0, TRUE), Message("mine", "other", FALSE, 0, TRUE),
   Message("other", "mine", FALSE, 0, TRUE), Message("mine", "none", TRUE, 2, TRUE),
   Message("none", "none", FALSE, 0, FALSE)}
AllDocuments ==
  {Document("none", "none", FALSE), Document("mine", "mine", FALSE), Document("mine", "mine", TRUE)}
=============================================================================
