------------------------------- MODULE Connection ------------------------------
(***************************************************************************)
(* One connection (the interface of connector/connector.go): the caller    *)
(* lists, then its goroutines download from the backup store that the list *)
(* is of, and the caller lists again, over whatever they have left.        *)
(* Nobody lists while a goroutine is inside the connector: cachePackSet    *)
(* has the whole list before it starts them (backup_set.go:193) and waits  *)
(* for all of them before it returns (237-239), and all others are alone.  *)
(***************************************************************************)
EXTENDS Connector, Listing

ASSUME ConnectionAssumption == Key \subseteq Name

listVars == <<remotePath, stored, listing, delimiter, marker, objects, appended,
              throughout, sometime>>
vars == <<connectorVars, listVars>>

ConnectionInit ==
    /\ ConnectorInit
    /\ ListingInit
    /\ stored = {n \in Name : n \in Key => remote[n] # "none"}

(* The list has been looked through. *)
ListIsTaken ==
    /\ listing' = "none"
    /\ delimiter' = "/"
    /\ marker' = 0
    /\ objects' = {} /\ appended' = 0
    /\ throughout' = {} /\ sometime' = {}

Lists ==
    /\ \A c \in Client : at[c] = "idle"
    /\ \E d \in Delimiter : ListObjects(d)
    /\ UNCHANGED connectorVars

ListGoesOn ==
    /\ ListingStep
    /\ UNCHANGED connectorVars

ArqStores(n) ==
    /\ ArqChanges(n)
    /\ remote' = IF n \notin Key THEN remote
                 ELSE [remote EXCEPT ![n] = IF n \in stored THEN "none" ELSE "whole"]
    /\ UNCHANGED <<backend, host, cache, at, want, faults>>

Downloads ==
    /\ listing # "pages"
    /\ \E c \in Client, k \in Key : Asks(c, k)
    /\ ListIsTaken
    /\ UNCHANGED <<remotePath, stored>>

DownloadGoesOn ==
    /\ \E c \in Client : ConnectorStep(c) \/ Takes(c)
    /\ UNCHANGED listVars

(* The process is killed, and another is started. *)
ConnectionDies ==
    /\ Dies
    /\ UNCHANGED listVars

ConnectionNext ==
    \/ Lists
    \/ ListGoesOn
    \/ \E n \in Name : ArqStores(n)
    \/ Downloads
    \/ DownloadGoesOn
    \/ ConnectionDies

ConnectionSpec == ConnectionInit /\ [][ConnectionNext]_vars
================================================================================
