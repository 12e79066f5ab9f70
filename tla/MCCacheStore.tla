---------------------------- MODULE MCCacheStore ----------------------------
(* CacheStore with either changing devices or a device that goes away.     *)
EXTENDS CacheStore

Both(what) == {<<r, what>> : r \in Reads}

MCBudgets == {[changes |-> 3, outages |-> 0, restarts |-> 1, reads |-> Both("devices")],
              [changes |-> 0, outages |-> 1, restarts |-> 1, reads |-> Both("messages")],
              [changes |-> 0, outages |-> 2, restarts |-> 0, reads |-> {<<"poll", "messages">>}]}
OneOutage == {[changes |-> 0, outages |-> 1, restarts |-> 0, reads |-> Both("messages")]}
=============================================================================
