SPECIFICATION ReportSpec
CONSTANTS
  CrdFiles <- MCCrdFiles
  Group = "g"
  Kind = "Kind"
  TestFields <- MCTestFields
  Forms <- MCForms
INVARIANTS
  WaiverIsEarned
PROPERTIES
  DeletingEarnsNothing
