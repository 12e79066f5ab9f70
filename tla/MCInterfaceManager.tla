------------------------- MODULE MCInterfaceManager -------------------------
(* InterfaceManager with HmIP-RF, which has a liveness ping, and           *)
(* VirtualDevices, which answers no ping; both speak XML-RPC.              *)
EXTENDS InterfaceManager, TLC

CONSTANTS hmip, virtual, xmlrpc, binrpc

MCProtocolOf == [i \in Interfaces |-> xmlrpc]

(* A CCU on which the two sit behind different callback servers.           *)
MCTwoProtocols == [i \in Interfaces |-> IF i = hmip THEN xmlrpc ELSE binrpc]

(* For the runs that show a disagreement without overlapping methods.      *)
OneMethodAtATime == Cardinality(calls) <= 1
=============================================================================
