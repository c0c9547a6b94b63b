-------------------------------- MODULE MCSmtp --------------------------------
(***************************************************************************)
(* The instance of Smtp for TLC.  What a client can do alone, with two     *)
(* mails, two recipients and lines of text, is kept apart from what two    *)
(* clients do one after the other, with one mail without text each.        *)
(***************************************************************************)
EXTENDS Smtp

MCCommands ==
  {Command("HELO", None, "remote"),
   Command("MAIL FROM", "eve", "remote"),
   Command("RCPT TO", "amy", "localhost"), Command("RCPT TO", "bob", "localhost"),
   Command("DATA", None, None), Command("NOOP", None, None),
   Command("unknown", None, None), Command("QUIT", None, None)}

Started(c) == pc[c] # "none"
Second(c) == tx[c].n > 1 /\ s[c].cur_state \notin {"INVALID", "SESSION"}
NoText == tx \in [Clients -> [n : Nat, from : {None, "eve"}, rcpts : SUBSET Users, text : {<<>>}]]
             /\ \A a \in acked : a.text = <<>>

Kept ==
  /\ Started("c2") => /\ Started("c1") /\ errno["c1"] = "none" /\ NoText
                      /\ \A c \in Clients : tx[c].rcpts \subseteq {"amy"} /\ ~Second(c)
  /\ \A c \in Clients : Second(c) => NoText
===============================================================================
