--------------------------- MODULE MCSectionForms ---------------------------
(* Settings with a section the shared hook serves and the Security section, and *)
(* Profile with its two cards side by side.                                     *)
EXTENDS SectionForms

ASSUME CardsFitRecords

MCPages == [settings |-> {"general", "security"}, profile |-> {"info", "preferences"}]
\* The padded text is trimmed to the second value; the last one is refused.
MCClean == [a |-> "a", b |-> "b", padded |-> "b", refused |-> Invalid]
MCTexts == DOMAIN MCClean
=============================================================================
