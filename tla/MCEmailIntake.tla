---------------------------- MODULE MCEmailIntake ----------------------------
(***************************************************************************)
(* EmailIntake for TLC: a message delivered twice, a reply to it, and a     *)
(* reply to the reply.                                                      *)
(***************************************************************************)
EXTENDS EmailIntake

CONSTANTS first, again, reply, further,  \* deliveries
          opening, answer, rejoinder      \* messages

Contents == [d \in Deliveries |->
                CASE d \in {first, again} -> opening
                  [] d = reply -> answer
                  [] d = further -> rejoinder]

Replies == [m \in Messages |->
               CASE m = answer -> opening
                 [] m = rejoinder -> answer
                 [] OTHER -> NoMessage]

\* The first reply quotes the ticket number.
QuotedNumbers == [m \in Messages |-> IF m = answer THEN opening ELSE NoMessage]

=============================================================================
