----------------------------- MODULE MCIngestion -----------------------------
EXTENDS Ingestion
=============================================================================
