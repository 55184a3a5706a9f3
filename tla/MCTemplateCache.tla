--------------------------- MODULE MCTemplateCache ---------------------------
EXTENDS TemplateCache, TLC

\* The registry may serve either image under a reference.
Moving == [r \in Ref |-> Digest]
=============================================================================
