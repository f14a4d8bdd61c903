----------------------------- MODULE MCSmtpConn -----------------------------
(* Values for SmtpConn's constants on small instances. *)
EXTENDS SmtpConn

MCNormalize == [r \in {"A", "a", "b"} |-> IF r = "b" THEN "b" ELSE "a"]
MCRawAddresses == DOMAIN MCNormalize
=============================================================================
