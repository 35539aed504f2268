-------------------------- MODULE MCDocumentStore --------------------------
EXTENDS DocumentStore
=============================================================================
