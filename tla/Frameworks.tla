----------------------------- MODULE Frameworks -----------------------------
(***************************************************************************)
(* The four frameworks the scoring engines load, as shared/frameworks/     *)
(* ships them: for each control its category, how it can be assessed, and  *)
(* the evidence types it requires.  Titles, descriptions and guidance are  *)
(* left out.  iso27001_2013_archived.yaml and nist_csf2_controls.yaml are  *)
(* loaded by no engine.                                                    *)
(***************************************************************************)
EXTENDS TLC

ControlGroup(mode, category, ids, required) ==
  [id \in ids |->
     [mode |-> mode, category |-> category, required |-> required]]

Automatable(category, ids, required) ==
  ControlGroup("automatable", category, ids, required)

Hybrid(category, ids, required) ==
  ControlGroup("hybrid", category, ids, required)

Manual(category, ids, required) ==
  ControlGroup("manual_upload", category, ids, required)

(* A control whose definition names no mode counts as hybrid.              *)
Unclassified(category, ids, required) == Hybrid(category, ids, required)

SOC2_CC1 ==
  Manual("CC", {"CC1.1", "CC1.4"}, {"policy_document", "training_records"})
  @@ Manual("CC", {"CC1.2"}, {"audit_reports", "policy_document"})
  @@ Manual("CC", {"CC1.3", "CC1.5"}, {"policy_document"})

SOC2_CC2 ==
  Manual("CC", {"CC2.1", "CC2.3"}, {"policy_document"})
  @@ Manual("CC", {"CC2.2"}, {"policy_document", "training_records"})

SOC2_CC3 ==
  Manual("CC", {"CC3.1", "CC3.2", "CC3.3", "CC3.4"}, {"audit_reports",
       "policy_document"})

SOC2_CC4 ==
  Hybrid("CC", {"CC4.1"}, {"audit_reports", "event_logs"})
  @@ Manual("CC", {"CC4.2"}, {"audit_reports", "incident_reports"})

SOC2_CC5 ==
  Manual("CC", {"CC5.1", "CC5.2"}, {"audit_reports", "policy_document"})
  @@ Manual("CC", {"CC5.3"}, {"policy_document"})

SOC2_CC6 ==
  Hybrid("CC", {"CC6.1"}, {"policy_document", "security_policies",
       "system_configs"})
  @@ Hybrid("CC", {"CC6.2", "CC6.3"}, {"policy_document", "user_provisioning"})
  @@ Manual("CC", {"CC6.4", "CC6.5"}, {"policy_document"})
  @@ Automatable("CC", {"CC6.6"}, {"firewall_configs", "network_configs",
       "system_configs"})
  @@ Hybrid("CC", {"CC6.7"}, {"encryption_policies", "network_configs"})
  @@ Automatable("CC", {"CC6.8"}, {"event_logs", "system_configs"})

SOC2_CC7 ==
  Automatable("CC", {"CC7.1"}, {"event_logs", "system_configs"})
  @@ Hybrid("CC", {"CC7.2"}, {"audit_reports", "event_logs"})
  @@ Manual("CC", {"CC7.3"}, {"audit_reports", "incident_reports"})
  @@ Manual("CC", {"CC7.4"}, {"incident_reports", "policy_document"})
  @@ Manual("CC", {"CC7.5"}, {"backup_logs", "incident_reports"})

SOC2_CC8 ==
  Manual("CC", {"CC8.1"}, {"audit_reports", "policy_document"})

SOC2_CC9 ==
  Manual("CC", {"CC9.1"}, {"backup_logs", "policy_document"})
  @@ Manual("CC", {"CC9.2"}, {"audit_reports", "policy_document"})

SOC2_Supplemental ==
  Hybrid("A", {"A1.1"}, {"audit_reports", "system_configs"})
  @@ Hybrid("A", {"A1.2"}, {"backup_logs", "system_configs"})
  @@ Manual("A", {"A1.3"}, {"audit_reports", "backup_logs"})
  @@ Manual("C", {"C1.1"}, {"policy_document"})
  @@ Manual("C", {"C1.2"}, {"audit_reports", "policy_document"})
  @@ Manual("PI", {"PI1.1", "PI1.2", "PI1.4", "PI1.5"}, {"audit_reports",
       "policy_document"})
  @@ Hybrid("PI", {"PI1.3"}, {"event_logs", "policy_document"})

ISO_A5a ==
  Manual("A.5", {"A.5.1", "A.5.2", "A.5.3", "A.5.4", "A.5.5", "A.5.6",
       "A.5.7", "A.5.8", "A.5.10", "A.5.11", "A.5.12", "A.5.13"},
       {"policy_document"})
  @@ Hybrid("A.5", {"A.5.9"}, {"audit_reports", "system_configs"})
  @@ Hybrid("A.5", {"A.5.14"}, {"network_configs", "policy_document"})
  @@ Hybrid("A.5", {"A.5.15"}, {"policy_document", "system_configs"})
  @@ Hybrid("A.5", {"A.5.16"}, {"policy_document", "user_provisioning"})

ISO_A5b ==
  Hybrid("A.5", {"A.5.17"}, {"policy_document", "security_policies"})
  @@ Hybrid("A.5", {"A.5.18"}, {"policy_document", "user_provisioning"})
  @@ Manual("A.5", {"A.5.19", "A.5.20", "A.5.21", "A.5.23", "A.5.24", "A.5.28",
       "A.5.29", "A.5.31", "A.5.32"}, {"policy_document"})
  @@ Manual("A.5", {"A.5.22"}, {"audit_reports", "policy_document"})
  @@ Manual("A.5", {"A.5.25", "A.5.26", "A.5.27"}, {"incident_reports"})
  @@ Manual("A.5", {"A.5.30"}, {"backup_logs", "policy_document"})

ISO_A5c ==
  Manual("A.5", {"A.5.33", "A.5.34", "A.5.37"}, {"policy_document"})
  @@ Manual("A.5", {"A.5.35", "A.5.36"}, {"audit_reports"})

ISO_A6 ==
  Manual("A.6", {"A.6.1", "A.6.2", "A.6.4", "A.6.5", "A.6.6", "A.6.8"},
       {"policy_document"})
  @@ Manual("A.6", {"A.6.3"}, {"policy_document", "training_records"})
  @@ Hybrid("A.6", {"A.6.7"}, {"policy_document", "security_policies"})

ISO_A7 ==
  Manual("A.7", {"A.7.1", "A.7.2", "A.7.3", "A.7.4", "A.7.5", "A.7.6",
       "A.7.8", "A.7.10", "A.7.11", "A.7.12", "A.7.13", "A.7.14"},
       {"policy_document"})
  @@ Hybrid("A.7", {"A.7.7"}, {"policy_document", "security_policies"})
  @@ Hybrid("A.7", {"A.7.9"}, {"policy_document", "system_configs"})

ISO_A8a ==
  Hybrid("A.8", {"A.8.1", "A.8.5"}, {"policy_document", "security_policies",
       "system_configs"})
  @@ Hybrid("A.8", {"A.8.2"}, {"policy_document", "user_provisioning"})
  @@ Manual("A.8", {"A.8.3", "A.8.4", "A.8.10", "A.8.11", "A.8.12"},
       {"policy_document"})
  @@ Hybrid("A.8", {"A.8.6", "A.8.8"}, {"audit_reports", "system_configs"})
  @@ Automatable("A.8", {"A.8.7", "A.8.15"}, {"event_logs", "system_configs"})
  @@ Automatable("A.8", {"A.8.9"}, {"system_configs"})
  @@ Hybrid("A.8", {"A.8.13"}, {"backup_logs", "system_configs"})
  @@ Manual("A.8", {"A.8.14"}, {"audit_reports", "policy_document"})
  @@ Hybrid("A.8", {"A.8.16"}, {"audit_reports", "event_logs"})

ISO_A8b ==
  Hybrid("A.8", {"A.8.17"}, {"event_logs", "system_configs"})
  @@ Hybrid("A.8", {"A.8.18", "A.8.19"}, {"policy_document", "system_configs"})
  @@ Automatable("A.8", {"A.8.20"}, {"firewall_configs", "network_configs"})
  @@ Manual("A.8", {"A.8.21", "A.8.23", "A.8.25", "A.8.26", "A.8.27", "A.8.28",
       "A.8.29", "A.8.30", "A.8.31"}, {"policy_document"})
  @@ Hybrid("A.8", {"A.8.22"}, {"network_configs", "policy_document"})
  @@ Hybrid("A.8", {"A.8.24"}, {"encryption_policies", "system_configs"})
  @@ Manual("A.8", {"A.8.32"}, {"audit_reports", "policy_document"})

ISO_A8c ==
  Manual("A.8", {"A.8.33", "A.8.34"}, {"policy_document"})

HIPAA_308a ==
  Unclassified("164.308", {"164.308.a.1", "164.308.a.1.ii.C", "164.308.a.2"},
       {"policy_document", "security_policies"})
  @@ Unclassified("164.308", {"164.308.a.1.ii.A"}, {"audit_reports",
       "security_policies", "system_configs"})
  @@ Unclassified("164.308", {"164.308.a.1.ii.B"}, {"audit_reports",
       "security_policies"})
  @@ Unclassified("164.308", {"164.308.a.1.ii.D"}, {"audit_reports",
       "event_logs"})
  @@ Unclassified("164.308", {"164.308.a.3.i", "164.308.a.3.ii.A",
       "164.308.a.3.ii.C"}, {"security_policies", "user_provisioning"})
  @@ Unclassified("164.308", {"164.308.a.4.ii.B"}, {"system_configs",
       "user_provisioning"})

HIPAA_308b ==
  Unclassified("164.308", {"164.308.a.4.ii.C"}, {"system_configs",
       "user_provisioning"})
  @@ Unclassified("164.308", {"164.308.a.5.ii.A", "164.308.a.5.ii.B",
       "164.308.a.5.ii.C", "164.308.a.5.ii.D"}, {"security_policies",
       "training_records"})
  @@ Unclassified("164.308", {"164.308.a.6.ii"}, {"incident_reports",
       "policy_document"})
  @@ Unclassified("164.308", {"164.308.a.7.ii.A", "164.308.a.7.ii.B",
       "164.308.a.7.ii.C", "164.308.a.8"}, {"audit_reports",
       "policy_document"})

HIPAA_308c ==
  Unclassified("164.308", {"164.308.b.1"}, {"audit_reports",
       "policy_document"})

HIPAA_310 ==
  Unclassified("164.310", {"164.310.a.2.i", "164.310.a.2.ii",
       "164.310.a.2.iii", "164.310.a.2.iv", "164.310.b", "164.310.c",
       "164.310.d.2.i", "164.310.d.2.ii", "164.310.d.2.iii",
       "164.310.d.2.iv"}, {"audit_reports", "policy_document"})

HIPAA_312 ==
  Unclassified("164.312", {"164.312.a.2.i", "164.312.a.2.ii",
       "164.312.a.2.iii", "164.312.a.2.iv"}, {"system_configs",
       "user_provisioning"})
  @@ Unclassified("164.312", {"164.312.b"}, {"audit_reports", "event_logs"})
  @@ Unclassified("164.312", {"164.312.c.2"}, {"audit_reports",
       "system_configs"})
  @@ Unclassified("164.312", {"164.312.d"}, {"security_policies",
       "user_provisioning"})
  @@ Unclassified("164.312", {"164.312.e.2.i", "164.312.e.2.ii"},
       {"encryption_policies", "network_configs"})

HIPAA_314 ==
  Unclassified("164.314", {"164.314.a.1", "164.314.b.1"}, {"audit_reports",
       "policy_document"})

HIPAA_316 ==
  Unclassified("164.316", {"164.316.a", "164.316.b.1", "164.316.b.2.i",
       "164.316.b.2.ii", "164.316.b.2.iii"}, {"audit_reports",
       "policy_document"})

GDPR_Principles ==
  Manual("5", {"Art.5.1"}, {"policy_document"})
  @@ Manual("5", {"Art.5.2"}, {"audit_reports", "policy_document"})
  @@ Manual("6", {"Art.6.1", "Art.6.4"}, {"policy_document"})
  @@ Manual("7", {"Art.7.1", "Art.7.2"}, {"policy_document"})
  @@ Manual("8", {"Art.8.1"}, {"policy_document"})
  @@ Manual("9", {"Art.9.1", "Art.9.2"}, {"policy_document"})

GDPR_Rightsa ==
  Manual("12", {"Art.12.1"}, {"policy_document"})
  @@ Manual("12", {"Art.12.2", "Art.12.3"}, {"audit_reports", "policy_document"})
  @@ Manual("13", {"Art.13"}, {"policy_document"})
  @@ Manual("14", {"Art.14"}, {"policy_document"})
  @@ Manual("15", {"Art.15.1", "Art.15.3"}, {"audit_reports", "policy_document"})
  @@ Manual("16", {"Art.16"}, {"audit_reports", "policy_document"})
  @@ Manual("17", {"Art.17.1"}, {"audit_reports", "policy_document"})

GDPR_Rightsb ==
  Manual("18", {"Art.18.1"}, {"audit_reports", "policy_document"})
  @@ Manual("20", {"Art.20.1"}, {"audit_reports", "policy_document"})
  @@ Manual("21", {"Art.21.1"}, {"policy_document"})
  @@ Manual("22", {"Art.22.1"}, {"policy_document"})

GDPR_Dutiesa ==
  Manual("24", {"Art.24.1"}, {"audit_reports", "policy_document"})
  @@ Hybrid("25", {"Art.25.1"}, {"encryption_policies", "security_policies",
       "system_configs"})
  @@ Automatable("25", {"Art.25.2"}, {"security_policies", "system_configs"})
  @@ Manual("28", {"Art.28.1", "Art.28.3"}, {"policy_document"})
  @@ Manual("30", {"Art.30.1"}, {"audit_reports", "policy_document"})
  @@ Manual("31", {"Art.31"}, {"audit_reports", "policy_document"})
  @@ Hybrid("32", {"Art.32.1"}, {"access_logs", "backup_logs",
       "encryption_policies", "event_logs", "firewall_configs",
       "network_configs", "system_configs"})

GDPR_Dutiesb ==
  Hybrid("33", {"Art.33.1"}, {"event_logs", "incident_reports"})
  @@ Manual("34", {"Art.34.1"}, {"incident_reports", "policy_document"})
  @@ Manual("35", {"Art.35.1"}, {"audit_reports", "policy_document"})
  @@ Manual("36", {"Art.36.1"}, {"audit_reports", "policy_document"})
  @@ Manual("37", {"Art.37.1"}, {"policy_document"})

GDPR_Transfers ==
  Manual("44", {"Art.44"}, {"policy_document"})
  @@ Manual("46", {"Art.46.2"}, {"policy_document"})
  @@ Manual("47", {"Art.47.1"}, {"policy_document"})

SOC2 == SOC2_CC1 @@ SOC2_CC2 @@ SOC2_CC3 @@ SOC2_CC4 @@ SOC2_CC5 @@ SOC2_CC6 @@
  SOC2_CC7 @@ SOC2_CC8 @@ SOC2_CC9 @@ SOC2_Supplemental

ISO == ISO_A5a @@ ISO_A5b @@ ISO_A5c @@ ISO_A6 @@ ISO_A7 @@ ISO_A8a @@ ISO_A8b
  @@ ISO_A8c

HIPAA == HIPAA_308a @@ HIPAA_308b @@ HIPAA_308c @@ HIPAA_310 @@ HIPAA_312 @@
  HIPAA_314 @@ HIPAA_316

GDPR == GDPR_Principles @@ GDPR_Rightsa @@ GDPR_Rightsb @@ GDPR_Dutiesa @@
  GDPR_Dutiesb @@ GDPR_Transfers


(* Keyed as the engines key them.                                          *)
Shipped == [soc2 |-> SOC2, iso27001 |-> ISO, hipaa |-> HIPAA, gdpr |-> GDPR]
=============================================================================
