---------------------------- MODULE RefIdentifier ----------------------------
(***************************************************************************)
(* The key under which a store keeps the record of a Ref.  A Ref is        *)
(* [name, id, domain]: the scope's name is one symbol; the id the scope's  *)
(* metadata has under "<name>_id", and the domain, are sequences of        *)
(* characters.  No id is NoText: it is missing, empty, or not a string.    *)
(***************************************************************************)
EXTENDS Naturals, Sequences

NoText       == <<>>
NoIdentifier == <<>>
Slash        == "/"

Entities == {"tenant", "org", "team", "user"}

IdentifierUnscoped(ref) ==
  CASE ref.name = "system" -> <<Slash>> \o ref.domain
    [] ref.name \in Entities /\ ref.id # NoText -> ref.id \o <<Slash>> \o ref.domain
    [] OTHER -> NoIdentifier
Identifier(ref) ==
  CASE ref.name = "system" -> <<"system", Slash>> \o ref.domain
    [] ref.name \in Entities /\ ref.id # NoText ->
         <<ref.name, Slash>> \o (ref.id \o <<Slash>> \o ref.domain)
    [] OTHER -> NoIdentifier

-----------------------------------------------------------------------------
SameRecord(r, s) ==
  r.name = s.name /\ r.domain = s.domain /\ (r.name # "system" => r.id = s.id)

(* Two refs with one key mean one domain of one scope: no scope reads or   *)
(* overwrites the record of another (Ref.Identifier, types.go:43-61).      *)
TellsApart(refs) ==
  \A r, s \in refs :
    Identifier(r) # NoIdentifier /\ Identifier(r) = Identifier(s) => SameRecord(r, s)
=============================================================================
