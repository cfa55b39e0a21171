SPECIFICATION FairSpec
CONSTANTS
  Broken = Broken
  GeoDatabases <- MCGeoDatabases
  ASNDatabases <- MCASNDatabases
  Sources = {"s1", "s2"}
  FileTables <- MCFileTables
  SourceTables <- MCSourceTables
  Static <- MCStatic
  Addresses <- MCAddresses
  MaxChanges = 1
INVARIANTS NetworksRight LookupsMergeAll
PROPERTIES FilesRefreshed
