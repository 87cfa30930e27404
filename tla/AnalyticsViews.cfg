\* Two threads, two organisations, four loads of any rows into any tables.
SPECIFICATION Spec
CONSTANTS
  t1 = t1  t2 = t2
  Threads = {t1, t2}
  Orgs = {"org1", "org2"}
  OpportunityIds = {"s1"}
  AccountIds = {"a1"}
  CompanyIds = {"k1", "k2"}
  DealIds = {"d1"}
  PipelineIds = {"p1"}
  Names = {"", "acme"}
  Null = Null
  MaxLoads = 4
CHECK_DEADLOCK FALSE
SYMMETRY Symmetry
INVARIANTS TypeOK TablesAgree PipelineAgrees LinksAgree
