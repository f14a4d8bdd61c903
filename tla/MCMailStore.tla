---------------------------- MODULE MCMailStore ----------------------------
(* Values for MailStore's constants on small instances. *)
EXTENDS MailStore

MCAddresses == {"a", "b"}
MCNormalize == [r \in {"a", " A", "b", " "} |->
                  IF r = "b" THEN "b" ELSE IF r = " " THEN Blank ELSE "a"]
MCRawAddresses == DOMAIN MCNormalize
MCTimes == {1, 2}

\* One mailbox, written two ways.
OneAddress == {"a"}
OneNormalize == [r \in {"a", " "} |-> IF r = " " THEN Blank ELSE "a"]
OneRawAddress == DOMAIN OneNormalize

Symmetry == Permutations(Procs)

\* The operations that hand out tokens, use them, or make them stale.
FenceOperations ==
    {"GetMessage", "MarkReadDetail", "OpenPOP3Mailbox", "DeletePOP3Messages",
     "DeleteMessages", "WipeAll", "StoreMessage"}

\* The operations that write rows the deliveries write too.
DeliveryOperations ==
    {"StoreMessage", "DeleteMailbox", "DeleteMessages", "ReadMessage", "MarkRead",
     "SetReadState"}

Message(recipients, ical, attachments) ==
    [recipients |-> recipients, ical |-> ical, attachments |-> attachments]

ICal(method, seq) ==
    [method |-> method, uid |-> "u", seq |-> seq, status |-> NoStatus,
     attendees |-> [x \in {"x"} |-> "ACCEPTED"], details |-> "d"]

\* One recipient, no parts: what the fence needs.
PlainInputs == {Message(<<"a">>, <<>>, 0)}

\* Blank, respelled and repeated recipients; calendar parts and attachments.
RichInputs ==
    {Message(<<"a", " ", "b">>, <<>>, 1),
     Message(<<" A", "a">>, <<ICal("REQUEST", 1), ICal("CANCEL", 0), ICal("REPLY", 0)>>, 0),
     Message(<<"b">>, <<ICal("CANCEL", 0)>>, 1)}
=============================================================================
