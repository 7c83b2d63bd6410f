-------------------------- MODULE MCModuleDispatch --------------------------
EXTENDS ModuleDispatch, TLC

CONSTANTS e1, e2, m1, m2

\* Two modules on one event, so that one can stand in the way of the other; one
\* of them on the event about a new case too.
SomeHooks == {<<e1, m1>>, <<e1, m2>>, <<e2, m2>>}
=============================================================================
