---------------------------- MODULE MCDataReader ----------------------------
(* Payloads for DataReader on small instances. *)
EXTENDS DataReader

\* Payloads of up to three pieces, a carriage return of its own among them.
MCBareCR == {FlattenSeq(s) : s \in BoundedSeq({CRLF, <<DOT>>, <<X>>, <<CR>>}, 3)}
=============================================================================
