----------------------------- MODULE MCAccess -------------------------------
EXTENDS Access, TLC

CONSTANTS root, bob, bot, t1, t2

\* The platform administrator is in the first tenant, bob and the service
\* account bot in the second.
Tenants == root :> t1 @@ bob :> t2 @@ bot :> t2

\* Two tenants have a user of the same name.
Names == root :> "admin" @@ bob :> "admin" @@ bot :> "bot"

Symmetry == Permutations(Worker) \cup Permutations(Conn)
=============================================================================
