------------------------------ MODULE MCLeadSync ------------------------------
(* A small instance of LeadSync: one visitor asks for three assets.        *)
EXTENDS LeadSync

MCEmail == [l \in Leads |-> "company"]
MCPersonal == {"personal"}
=============================================================================
