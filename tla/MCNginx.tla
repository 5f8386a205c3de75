------------------------------ MODULE MCNginx ------------------------------
(***************************************************************************)
(* Two instances behind one nginx, one of which opens the port of HTTPS.   *)
(***************************************************************************)
EXTENDS Nginx

CONSTANTS a, b

MCFoundRules == {{}, {80}}

OddSite == \E i \in Instance : found.vhost[i] # "absent" \/ found.link[i] # "absent"
OddDefault == found.site \in {"file", "other"}

\* The machines differ in one thing at a time: the customer's vhost or link, the
\* default site, the firewall, the boolean.
MCOneOddity ==
    Cardinality({x \in 1 .. 4 :
        \/ x = 1 /\ OddSite
        \/ x = 2 /\ OddDefault
        \/ x = 3 /\ walled
        \/ x = 4 /\ found.switch = "off"}) <= 1

\* After a fault one instance goes on, where the customer has files to lose.
MCAloneAfterFault ==
    faults > 0 =>
        /\ OddSite \/ OddDefault
        /\ Cardinality({i \in Instance : man[i].steps # {} \/ (pc # "idle" /\ who = i)}) <= 1

MCBounds == MCOneOddity /\ MCAloneAfterFault

=============================================================================
