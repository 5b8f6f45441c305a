------------------------------- MODULE MCInbox -------------------------------
(* Small instances of Inbox.  A webhook is named for what is special in it.  *)
EXTENDS Inbox

CONSTANTS charge, invoice, usage, credit, none, r1, r2, Never, Once

stripe(id) == [source |-> "stripe", id |-> id, type |-> "charge.succeeded", portable |-> TRUE]

MCContent == [w \in Webhooks |->
  CASE w = charge   -> stripe("evt_1")
    [] w = invoice  -> [source |-> "zuora", id |-> "inv_1", type |-> "invoice.posted",
                        portable |-> TRUE]
    [] w \in {usage, credit} -> [source |-> "zuora", id |-> none,
                                 type |-> "usage.uploaded",
                                 portable |-> w = usage]]

MCSeed == <<charge, invoice>>
NoSeed == <<>>

MCMaxSends ==
  [w \in Webhooks |-> CASE w \in Never -> 0 [] w \in Once -> 1 [] OTHER -> 2]
=============================================================================
