------------------------------ MODULE MCCatalog ------------------------------
\* Model values for checking Catalog.
EXTENDS Catalog
==============================================================================
