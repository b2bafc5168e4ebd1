SPECIFICATION AdministrationSpec
CONSTANTS
  ann = ann
  ben = ben
  cem = cem
  vital = vital
  extra = extra
  office = office
  kilishi = kilishi
  kebab = kebab
  beef = beef
  one = one
  other = other
  People = {ann, ben}
  InitialAccounts <- McAccounts
  AdminRequests = {1, 2}
  LegacyForms <- McForms
  MaxRequests = 3
  Workers = {ann}
  Permissions = {vital, extra}
  Vital = {vital}
  Operational = {"foreman", "delivery"}
  Custom = {"buyer"}
  RoleRequests = {1, 2}
  MaxEdits = 3
  Keys = {"product", "quantity"}
  Targets = {"sales", "raw_materials"}
  FormRequests = {1, 2}
  MaxFieldId = 3
  MaxVersions = 3
  MaxSubmissions = 1
  Users = {ann}
  Addresses = {office}
  Whitelist = {office}
  Paths <- McPaths
  Scale = 100
  Second = 2
  Window = 2
  Interval = 3
  MaxTime = 9
  Products = {kilishi, kebab}
  Materials = {beef}
  Shops <- McShops
  Jobs = {one, other}
  Reviewers = {ben}
  Reviewed = {"reorder"}
  Week = 1
  Month = 1
  MaxCandidates = 1
  MaxRuns = 2
  MaxReviews = 1
  MaxClock = 3
VIEW AdministrationView
INVARIANTS AdministrationTypeOK FormsKept
PROPERTIES AccountsExplained ReplacedAsAsked LimitsKept AdviceExplained
CHECK_DEADLOCK FALSE
